---------------------------- MODULE Spec2Model ----------------------------
(***************************************************************************)
(* Model of the connection package of deploydb-agent: the Client (one      *)
(* WebSocket connection: dial, agent_hello, welcome, read loop, sends,     *)
(* Close), the Manager (run loop with reconnect, runConnected, Stop,       *)
(* cleanup, setState) and the backoff calculator.                          *)
(*                                                                         *)
(* At most two Clients are reachable from the Manager at any time: the one *)
(* m.client points to and the one the current attempt has created.  They   *)
(* live in the two slots of Clients; NewClient takes the slot m.client     *)
(* does not point to, whose former Client is unreachable by then.  The     *)
(* fields of the Client in slot c are conn[c], closed[c], commands[c], ... *)
(* The peer (control plane), the timers, the context and the callers of    *)
(* Stop and SendCommandResult are the environment.                         *)
(***************************************************************************)
EXTENDS Integers, Sequences, FiniteSets, TLC

(***************************************************************************)
(* Bounds of the model.                                                    *)
(***************************************************************************)
MaxAttempts == 2        \* Clients the run loop may create
MaxPeerFrames == 2      \* frames the peer sends, over all connections
MaxTicks == 1           \* ticker firings (ping and metrics together)
MaxStops == 2           \* calls of Manager.Stop
MaxWriters == 3         \* tasks that call the send methods

(***************************************************************************)
(* Program constants.                                                      *)
(***************************************************************************)
InitialBackoff == 1     \* seconds, Config.WithDefaults
MaxBackoff == 300       \* seconds (5 minutes), Config.WithDefaults
BackoffFactor == 2      \* Config.WithDefaults
CommandQueueCap == 10   \* make(chan Command, 10)

\* collaborators registered before Start, as cmd/deploydb-agent/main.go does
onStateChange == TRUE
onCommand == TRUE

StateDisconnected == "disconnected"
StateConnecting == "connecting"
StateConnected == "connected"
States == {StateDisconnected, StateConnecting, StateConnected}

Clients == {1, 2}
Callers == 1..MaxStops

\* the tasks that call Client.send: the run loop (1) and the callers of
\* Manager.SendCommandResult
Writers == 1..MaxWriters
Idle == [at |-> "idle", on |-> 0, type |-> "none"]

(***************************************************************************)
(* Frames the peer can send.  A frame is the decoded envelope: its type    *)
(* tag and the fields of the payload of that type; "garbage" is a frame    *)
(* that json.Unmarshal rejects.                                            *)
(***************************************************************************)
WelcomeFrames ==
    { [type |-> "welcome", server_id |-> "srv_123", metrics_interval_seconds |-> 30,
       signing_public_key |-> "", commands_enabled |-> TRUE],
      [type |-> "welcome", server_id |-> "srv_456", metrics_interval_seconds |-> 0,
       signing_public_key |-> "pk_1", commands_enabled |-> FALSE] }

ErrorFrames ==
    { [type |-> "error", code |-> "rate_limited", message |-> "slow down",
       retry_after_seconds |-> 60],
      [type |-> "error", code |-> "rate_limited", message |-> "slow down",
       retry_after_seconds |-> 120] }

\* A value of signed_payload, as json.Unmarshal decodes it into interface{}:
\* a string, a number (float64; here whole numbers) or an object.
Str(v) == [kind |-> "string", val |-> v]
Num(v) == [kind |-> "number", val |-> v]
Obj(v) == [kind |-> "object", val |-> v]

\* signed_payload of the k-th command: complete, or without nonce and with
\* a timestamp that is no number (every fourth one)
SignedPayload(k) ==
    IF k % 4 = 0
    THEN [server_id |-> Str("srv_123"), command |-> Str("vacuum_analyze"),
          params |-> Obj(<<"table", k>>), timestamp |-> Str("2024-01-01")]
    ELSE [server_id |-> Str("srv_123"), command |-> Str("vacuum_analyze"),
          params |-> Obj(<<"table", k>>), nonce |-> Str(<<"nonce", k>>),
          timestamp |-> Num(86400000 + 1500 * k - 1)]

\* The k-th command frame of the peer; decodes tells whether its payload
\* decodes as CommandPayload (every seventh one does not).
CommandFrameOf(k) ==
    [type |-> "command", id |-> <<"cmd", k>>, signature |-> <<"sig", k>>,
     signed_payload |-> SignedPayload(k), decodes |-> (k % 7 # 0)]

CommandFrame == CommandFrameOf(1)

OtherFrames == { [type |-> "pong"], [type |-> "bogus"], [type |-> "garbage"] }

Frames == WelcomeFrames \cup ErrorFrames \cup {CommandFrame} \cup OtherFrames

\* the mapping the provider of TestManager_SendMetrics returns
TestMetrics == [test_metric |-> 42]

NoReply == [type |-> "none"]
NoError == <<>>

VARIABLES
    \* Manager
    state, client, stopCh, stoppedCh, current, metricsHandler,
    \* run goroutine: position, the Client it works on, its context
    pc, cur, ctxDone,
    \* Clients
    conn, closed, commands, commandsClosed,
    serverID, metricsIntervalSeconds, signingPublicKey, commandsEnabled,
    readLoop,
    \* the websocket of each Client and the peer behind it
    transport, peerClosed, inbox, wire,
    \* counters and timers
    nClients, peerFrames, pingDue, metricsDue, ticks,
    \* callers and collaborators: the calls of Stop, the commands delivered
    \* to the handler and those it still owes a result for, the number of
    \* observer calls and the state passed to the last one
    stopCall, delivered, owed, nObserved, lastObserved,
    \* history: the outcome of each Client's handshake, and whether a Client
    \* became unreachable with its transport open
    hsReply, connectErr, leaked,
    \* backoff: the fields of the struct beside current (mgrVars), and the
    \* backoffDuration of run's last backoff wait (0 when no attempt has
    \* failed since the start or the last successful connect)
    initial, max, multiplier, backoffDuration,
    \* the command frames each Client's read loop has handled, in order
    received,
    \* the calls made on a backoff used on its own: the values Next returned
    \* since the last Reset, the last call, the number of calls
    returned, lastOp, nCalls,
    \* the calls made on the send methods from outside the run loop: the
    \* error the last one returned, the Client it went to, their number
    sendErr, sendOn, nSends,
    \* the calls of Client.Close made from outside the run loop, per Client
    closeCalls,
    \* the metrics provider: the mapping it returns, and per Client the
    \* mappings its invocations returned and those of the metrics frames
    \* written
    provided, invoked, metricsSent,
    \* c.mu of each Client as Client.send uses it (the task that holds it
    \* for writing, 0 when none), and the position of each task in send
    mu, writer,
    \* the collaborator callbacks in progress, each with the task it runs
    \* on, and whether the one on the run-loop task is blocked in Stop
    executing, inStop

mgrVars == <<state, client, stopCh, stoppedCh, current, metricsHandler>>
runVars == <<pc, cur, ctxDone>>
hsVars == <<serverID, metricsIntervalSeconds, signingPublicKey, commandsEnabled>>
clientVars == <<conn, closed, commands, commandsClosed, hsVars, readLoop>>
connVars == <<transport, peerClosed, inbox, wire>>
envVars == <<nClients, peerFrames, pingDue, metricsDue, ticks>>
obsVars == <<nObserved, lastObserved>>
callVars == <<stopCall, delivered, owed, obsVars>>
histVars == <<hsReply, connectErr, leaked>>
backoffCfg == <<initial, max, multiplier>>
sendVars == <<sendErr, sendOn, nSends>>
sessVars == <<closeCalls, provided, mu, writer, executing, inStop>>
provVars == <<invoked, metricsSent>>
driverVars == <<returned, lastOp, nCalls, sendVars, sessVars, provVars>>
bkVars == <<backoffCfg, driverVars, backoffDuration>>
vars == <<mgrVars, runVars, clientVars, connVars, envVars, callVars, histVars,
          bkVars, received>>

Min(a, b) == IF a < b THEN a ELSE b


(***************************************************************************)
(* backoff.  Durations are integers (time.Duration); the multiplier, a     *)
(* float64, is the fraction num/den.                                       *)
(***************************************************************************)
\* time.Duration(float64(d) * multiplier): the product, truncated towards 0
Scale(d, f) ==
    IF d >= 0 THEN (d * f.num) \div f.den ELSE 0 - (((0 - d) * f.num) \div f.den)

\* newBackoff
newBackoff(i, m, f) ==
    /\ initial = i
    /\ max = m
    /\ multiplier = f
    /\ current = i

\* faulty variant: Next advances current without the cap
BackoffNext_NoCap(cu) == [d |-> cu, current |-> Scale(cu, multiplier)]

\* faulty variant: Next returns the delay it has just advanced to
BackoffNext_ReturnsNew(cu) ==
    [d |-> Min(Scale(cu, multiplier), max), current |-> Min(Scale(cu, multiplier), max)]

\* backoff.Next: the value returned and the new current
BackoffNext(cu) ==
    [d |-> cu, current |-> Min(Scale(cu, multiplier), max)]

\* faulty variant: Reset leaves current alone
BackoffReset_Keeps == current

\* backoff.Reset: the new current
BackoffReset == initial

(***************************************************************************)
(* NewManager, and the fields NewClient gives a Client.                    *)
(***************************************************************************)
\* every field but the backoff and the metrics handler
InitManager ==
    /\ state = StateDisconnected
    /\ client = 0
    /\ stopCh = FALSE
    /\ stoppedCh = FALSE
    /\ pc = "idle"
    /\ cur = 0
    /\ ctxDone = FALSE
    /\ conn = [c \in Clients |-> "nil"]
    /\ closed = [c \in Clients |-> FALSE]
    /\ commands = [c \in Clients |-> <<>>]
    /\ commandsClosed = [c \in Clients |-> FALSE]
    /\ serverID = [c \in Clients |-> ""]
    /\ metricsIntervalSeconds = [c \in Clients |-> 0]
    /\ signingPublicKey = [c \in Clients |-> ""]
    /\ commandsEnabled = [c \in Clients |-> FALSE]
    /\ readLoop = [c \in Clients |-> "none"]
    /\ transport = [c \in Clients |-> "none"]
    /\ peerClosed = [c \in Clients |-> FALSE]
    /\ inbox = [c \in Clients |-> <<>>]
    /\ wire = [c \in Clients |-> <<>>]
    /\ nClients = 0
    /\ peerFrames = 0
    /\ pingDue = FALSE
    /\ metricsDue = FALSE
    /\ ticks = 0
    /\ stopCall = [i \in Callers |-> "idle"]
    /\ delivered = [c \in Clients |-> <<>>]
    /\ owed = 0
    /\ nObserved = 0
    /\ lastObserved = "none"
    /\ hsReply = [c \in Clients |-> NoReply]
    /\ connectErr = [c \in Clients |-> NoError]
    /\ leaked = FALSE
    /\ backoffDuration = 0
    /\ received = [c \in Clients |-> <<>>]
    /\ returned = <<>>
    /\ lastOp = "new"
    /\ nCalls = 0
    /\ sendErr = "none"
    /\ sendOn = 0
    /\ nSends = 0
    /\ closeCalls = [c \in Clients |-> 0]
    /\ provided = TestMetrics
    /\ invoked = [c \in Clients |-> <<>>]
    /\ metricsSent = [c \in Clients |-> <<>>]
    /\ mu = [c \in Clients |-> 0]
    /\ writer = [t \in Writers |-> Idle]
    /\ executing = {}
    /\ inStop = FALSE

\* the backoff NewManager builds from Config.WithDefaults
DefaultMultiplier == [num |-> BackoffFactor, den |-> 1]

Init ==
    /\ InitManager
    /\ metricsHandler \in BOOLEAN
    /\ newBackoff(InitialBackoff, MaxBackoff, DefaultMultiplier)

(***************************************************************************)
(* Manager.setState: writes the state, and calls the observer when the     *)
(* state differs from the old one.                                         *)
(***************************************************************************)
\* faulty variant: oldState is read after the new state was written, so the
\* observer is never called
setState_ReadsOldLate(s) ==
    /\ state' = s
    /\ UNCHANGED obsVars

setState(s) ==
    /\ state' = s
    /\ IF state # s /\ onStateChange
       THEN nObserved' = nObserved + 1 /\ lastObserved' = s
       ELSE UNCHANGED obsVars

\* Manager.State
State == state

(***************************************************************************)
(* Client                                                                  *)
(***************************************************************************)
\* NewClient: the slot the new Client takes
NewSlot == IF client = 1 THEN 2 ELSE 1

\* Client.IsConnected
IsConnected(c) == conn[c] # "nil" /\ ~closed[c]

\* conn.Close() of the websocket: the transport is closed, and the frames
\* that were not read yet are lost
CloseConn(c) ==
    /\ transport' = [transport EXCEPT ![c] = "closed"]
    /\ inbox' = [inbox EXCEPT ![c] = <<>>]

\* faulty variant: Close marks the Client closed and leaves the transport
Close_KeepsConn(c) ==
    /\ closed' = [closed EXCEPT ![c] = TRUE]
    /\ UNCHANGED <<transport, inbox>>

\* Client.Close: sets closed, closes closeCh, closes the transport if any
Close(c) ==
    /\ closed' = [closed EXCEPT ![c] = TRUE]
    /\ IF ~closed[c] /\ conn[c] # "nil"
       THEN CloseConn(c)
       ELSE UNCHANGED <<transport, inbox>>

\* Client.send: the write succeeds only on a transport that is open; once
\* the peer has closed its end the write may still succeed or fail
CanWrite(c) == conn[c] # "nil" /\ transport[c] = "open"
MayFail(c) == ~CanWrite(c) \/ peerClosed[c]

\* Client.send of a frame of type t: written, or an error
SendOK(c, t) ==
    /\ CanWrite(c)
    /\ wire' = [wire EXCEPT ![c] = Append(@, t)]

SendFails(c) ==
    /\ MayFail(c)
    /\ UNCHANGED wire

\* faulty variant: the frame is written without the mapping
SendMetrics_Empty(c, metrics) ==
    \/ /\ SendOK(c, "metrics")
       /\ metricsSent' = [metricsSent EXCEPT ![c] = Append(@, [none |-> 0])]
    \/ /\ SendFails(c)
       /\ UNCHANGED metricsSent

\* Client.SendMetrics as the run loop calls it: a metrics frame with the
\* mapping is written, or the write fails
SendMetrics(c, metrics) ==
    \/ /\ SendOK(c, "metrics")
       /\ metricsSent' = [metricsSent EXCEPT ![c] = Append(@, metrics)]
    \/ /\ SendFails(c)
       /\ UNCHANGED metricsSent

\* Manager.ServerID, Manager.SigningPublicKey
ManagerServerID == IF client = 0 THEN "" ELSE serverID[client]
ManagerSigningPublicKey == IF client = 0 THEN "" ELSE signingPublicKey[client]

(***************************************************************************)
(* Client.waitForWelcome                                                   *)
(***************************************************************************)
\* the error waitForWelcome returns for a first frame f that is no welcome,
\* as Connect wraps it: the pieces of the error text
WelcomeError(f) ==
    CASE f.type = "garbage" -> <<"wait for welcome", "unmarshal message">>
      [] f.type = "error" -> <<"wait for welcome", "server error", f.code, f.message>>
      [] OTHER -> <<"wait for welcome", "unexpected message type", f.type>>

\* the error of a failed or timed out ReadMessage
ReadError == <<"wait for welcome", "read message">>

\* faulty variant: server id and signing key are taken from each other's field
StoreWelcome_Swapped(c, f) ==
    /\ serverID' = [serverID EXCEPT ![c] = f.signing_public_key]
    /\ metricsIntervalSeconds' =
           [metricsIntervalSeconds EXCEPT ![c] = f.metrics_interval_seconds]
    /\ signingPublicKey' = [signingPublicKey EXCEPT ![c] = f.server_id]
    /\ commandsEnabled' = [commandsEnabled EXCEPT ![c] = f.commands_enabled]

\* the case "welcome": the four fields are taken from the payload
StoreWelcome(c, f) ==
    /\ serverID' = [serverID EXCEPT ![c] = f.server_id]
    /\ metricsIntervalSeconds' =
           [metricsIntervalSeconds EXCEPT ![c] = f.metrics_interval_seconds]
    /\ signingPublicKey' = [signingPublicKey EXCEPT ![c] = f.signing_public_key]
    /\ commandsEnabled' = [commandsEnabled EXCEPT ![c] = f.commands_enabled]

(***************************************************************************)
(* Manager.Start and Manager.run                                           *)
(***************************************************************************)
Start ==
    /\ pc = "idle"
    /\ pc' = "top"
    /\ UNCHANGED <<bkVars, received,
                   mgrVars, cur, ctxDone, clientVars, connVars, envVars,
                   callVars, histVars>>

\* Manager.cleanup: closes and forgets the current client, writes the state
\* field directly
cleanup ==
    /\ IF client # 0
       THEN Close(client) /\ client' = 0
       ELSE UNCHANGED <<closed, transport, inbox, client>>
    /\ state' = StateDisconnected
    /\ UNCHANGED obsVars

\* the select at the top of the loop, stop or cancel requested
RunTopExit ==
    /\ pc = "top"
    /\ ctxDone \/ stopCh
    /\ cleanup
    /\ pc' = "done"
    /\ stoppedCh' = TRUE
    /\ UNCHANGED <<bkVars, received,
                   stopCh, current, metricsHandler, cur, ctxDone,
                   conn, commands, commandsClosed, hsVars, readLoop,
                   peerClosed, wire, envVars,
                   stopCall, delivered, owed, histVars>>

\* faulty variant: the select at the top of the loop lacks case <-m.stopCh
RunTopConnect_IgnoresStop ==
    /\ pc = "top"
    /\ ~ctxDone
    /\ nClients < MaxAttempts
    /\ pc' = "attempt"
    /\ UNCHANGED <<bkVars, received,
                   mgrVars, cur, ctxDone, clientVars, connVars, envVars,
                   callVars, histVars>>

\* the default case of that select: neither channel is ready
RunTopConnect ==
    /\ pc = "top"
    /\ ~ctxDone /\ ~stopCh
    /\ nClients < MaxAttempts
    /\ pc' = "attempt"
    /\ UNCHANGED <<bkVars, received,
                   mgrVars, cur, ctxDone, clientVars, connVars, envVars,
                   callVars, histVars>>

\* setState(StateConnecting), then connect creates a Client (NewClient:
\* every field fresh) and enters Client.Connect
RunAttempt ==
    /\ pc = "attempt"
    /\ setState(StateConnecting)
    /\ nClients' = nClients + 1
    /\ LET c == NewSlot IN
        /\ cur' = c
        /\ leaked' = (leaked \/ transport[c] = "open")
        /\ conn' = [conn EXCEPT ![c] = "nil"]
        /\ closed' = [closed EXCEPT ![c] = FALSE]
        /\ commands' = [commands EXCEPT ![c] = <<>>]
        /\ commandsClosed' = [commandsClosed EXCEPT ![c] = FALSE]
        /\ serverID' = [serverID EXCEPT ![c] = ""]
        /\ metricsIntervalSeconds' = [metricsIntervalSeconds EXCEPT ![c] = 0]
        /\ signingPublicKey' = [signingPublicKey EXCEPT ![c] = ""]
        /\ commandsEnabled' = [commandsEnabled EXCEPT ![c] = FALSE]
        /\ readLoop' = [readLoop EXCEPT ![c] = "none"]
        /\ transport' = [transport EXCEPT ![c] = "none"]
        /\ peerClosed' = [peerClosed EXCEPT ![c] = FALSE]
        /\ inbox' = [inbox EXCEPT ![c] = <<>>]
        /\ wire' = [wire EXCEPT ![c] = <<>>]
        /\ delivered' = [delivered EXCEPT ![c] = <<>>]
        /\ received' = [received EXCEPT ![c] = <<>>]
        /\ invoked' = [invoked EXCEPT ![c] = <<>>]
        /\ metricsSent' = [metricsSent EXCEPT ![c] = <<>>]
        /\ hsReply' = [hsReply EXCEPT ![c] = NoReply]
        /\ connectErr' = [connectErr EXCEPT ![c] = NoError]
    /\ pc' = "dial"
    /\ UNCHANGED <<backoffCfg, backoffDuration, returned, lastOp, nCalls, sendVars,
                   sessVars,
                   client, stopCh, stoppedCh, current, metricsHandler, ctxDone,
                   peerFrames, pingDue, metricsDue, ticks, stopCall, owed>>

\* faulty variant: run waits the initial delay after every failure
FailAttempt_FixedWait(err) ==
    /\ connectErr' = [connectErr EXCEPT ![cur] = err]
    /\ setState(StateDisconnected)
    /\ backoffDuration' = initial
    /\ current' = current
    /\ pc' = "backoff"

\* run after connect returned err: setState(StateDisconnected), backoff.Next,
\* then the select of the backoff wait
FailAttempt(err) ==
    /\ connectErr' = [connectErr EXCEPT ![cur] = err]
    /\ setState(StateDisconnected)
    /\ backoffDuration' = BackoffNext(current).d
    /\ current' = BackoffNext(current).current
    /\ pc' = "backoff"

\* Client.Connect up to the agent_hello: the dial fails (always when the
\* context is already cancelled), or the hello cannot be written and the
\* transport is closed again, or the hello is on the wire
RunDial ==
    /\ pc = "dial"
    /\ \/ /\ FailAttempt(<<"dial">>)
          /\ UNCHANGED <<conn, transport, wire>>
       \/ /\ ~ctxDone
          /\ conn' = [conn EXCEPT ![cur] = "set"]
          /\ transport' = [transport EXCEPT ![cur] = "closed"]
          /\ FailAttempt(<<"send agent_hello">>)
          /\ UNCHANGED wire
       \/ /\ ~ctxDone
          /\ conn' = [conn EXCEPT ![cur] = "set"]
          /\ transport' = [transport EXCEPT ![cur] = "open"]
          /\ wire' = [wire EXCEPT ![cur] = <<"agent_hello">>]
          /\ pc' = "welcome"
          /\ UNCHANGED <<state, obsVars, current, connectErr, backoffDuration>>
    /\ UNCHANGED <<backoffCfg, driverVars, received,
                   client, stopCh, stoppedCh, metricsHandler, cur, ctxDone,
                   closed, commands, commandsClosed, hsVars, readLoop,
                   peerClosed, inbox, envVars,
                   stopCall, delivered, owed, hsReply, leaked>>

\* faulty variant: Manager.connect keeps the Client of the first session
ConnectSucceeded_KeepsClient ==
    /\ readLoop' = [readLoop EXCEPT ![cur] = "running"]
    /\ client' = IF client = 0 THEN cur ELSE client
    /\ setState(StateConnected)
    /\ current' = BackoffReset
    /\ pingDue' = FALSE
    /\ metricsDue' = FALSE
    /\ pc' = "connected"
    /\ inbox' = [inbox EXCEPT ![cur] = Tail(@)]
    /\ backoffDuration' = 0
    /\ UNCHANGED <<transport, connectErr>>

\* Client.Connect after a welcome: go readLoop; Manager.connect: m.client =
\* client; run: setState(StateConnected), backoff.Reset; runConnected: the
\* tickers are created
ConnectSucceeded ==
    /\ readLoop' = [readLoop EXCEPT ![cur] = "running"]
    /\ client' = cur
    /\ setState(StateConnected)
    /\ current' = BackoffReset
    /\ pingDue' = FALSE
    /\ metricsDue' = FALSE
    /\ pc' = "connected"
    /\ inbox' = [inbox EXCEPT ![cur] = Tail(@)]
    /\ backoffDuration' = 0
    /\ UNCHANGED <<transport, connectErr>>

\* faulty variant: Connect returns the error without conn.Close()
ConnectFailed_LeaksConn(err) ==
    /\ FailAttempt(err)
    /\ UNCHANGED <<transport, inbox, hsVars, readLoop, client, pingDue, metricsDue>>

\* Client.Connect after waitForWelcome failed: conn.Close(), the error is
\* returned to run
ConnectFailed(err) ==
    /\ CloseConn(cur)
    /\ FailAttempt(err)
    /\ UNCHANGED <<hsVars, readLoop, client, pingDue, metricsDue>>

\* waitForWelcome returns: one frame is read, or the read fails because the
\* peer closed, or the deadline of the 30 s connect context passes
RunWelcome ==
    /\ pc = "welcome"
    /\ \/ /\ inbox[cur] # <<>>
          /\ LET f == Head(inbox[cur]) IN
              /\ hsReply' = [hsReply EXCEPT ![cur] = f]
              /\ IF f.type = "welcome"
                 THEN StoreWelcome(cur, f) /\ ConnectSucceeded
                 ELSE ConnectFailed(WelcomeError(f))
       \/ /\ inbox[cur] = <<>>
          /\ hsReply' = [hsReply EXCEPT ![cur] =
                            [type |-> IF peerClosed[cur] THEN "closed" ELSE "timeout"]]
          /\ ConnectFailed(ReadError)
    /\ UNCHANGED <<backoffCfg, driverVars, received,
                   stopCh, stoppedCh, metricsHandler, cur, ctxDone,
                   conn, closed, commands, commandsClosed,
                   peerClosed, wire, nClients, peerFrames, ticks,
                   stopCall, delivered, owed, leaked>>

\* the select of the backoff wait: stop or cancel, run returns
RunBackoffExit ==
    /\ pc = "backoff"
    /\ ctxDone \/ stopCh
    /\ pc' = "done"
    /\ stoppedCh' = TRUE
    /\ UNCHANGED <<bkVars, received,
                   state, client, stopCh, current, metricsHandler, cur, ctxDone,
                   clientVars, connVars, envVars, callVars, histVars>>

\* faulty variant: run gives up after the backoff wait
RunBackoffElapsed_Returns ==
    /\ pc = "backoff"
    /\ pc' = "done"
    /\ stoppedCh' = TRUE
    /\ UNCHANGED <<bkVars, received,
                   state, client, stopCh, current, metricsHandler, cur, ctxDone,
                   clientVars, connVars, envVars, callVars, histVars>>

\* time.After(backoffDuration) fires: continue
RunBackoffElapsed ==
    /\ pc = "backoff"
    /\ pc' = "top"
    /\ UNCHANGED <<bkVars, received,
                   mgrVars, cur, ctxDone, clientVars, connVars, envVars,
                   callVars, histVars>>

(***************************************************************************)
(* Manager.runConnected.  Every case of its select is one action; the      *)
(* phase ends with run's setState(StateDisconnected) and the cool-down.    *)
(***************************************************************************)
\* faulty variant: run forgets setState(StateDisconnected) after runConnected
LeaveConnected_KeepsState ==
    /\ pc' = "cooldown"
    /\ UNCHANGED <<state, obsVars>>

\* faulty variant: the end of a session is treated as a failed attempt
LeaveConnected_BacksOff ==
    /\ setState(StateDisconnected)
    /\ pc' = "backoff"

\* runConnected returns; run: setState(StateDisconnected), cool-down select
LeaveConnected ==
    /\ setState(StateDisconnected)
    /\ pc' = "cooldown"

\* faulty variant: the ticker is created whatever interval was advertised
MetricsTicker_IgnoresInterval == metricsHandler

\* metricsTicker # nil
MetricsTicker == metricsHandler /\ metricsIntervalSeconds[cur] > 0

\* faulty variant: the select of runConnected lacks case <-m.stopCh
RunConnectedStop_CtxOnly ==
    /\ pc = "connected"
    /\ ctxDone
    /\ Close(cur)
    /\ LeaveConnected
    /\ UNCHANGED <<bkVars, received,
                   client, stopCh, stoppedCh, current, metricsHandler, cur, ctxDone,
                   conn, commands, commandsClosed, hsVars, readLoop,
                   peerClosed, wire, envVars,
                   stopCall, delivered, owed, histVars>>

\* faulty variant: the run loop closes the command queue when it closes the
\* Client
RunConnectedStop_ClosesQueue ==
    /\ pc = "connected"
    /\ ctxDone \/ stopCh
    /\ Close(cur)
    /\ commandsClosed' = [commandsClosed EXCEPT ![cur] = TRUE]
    /\ LeaveConnected
    /\ UNCHANGED <<bkVars, received,
                   client, stopCh, stoppedCh, current, metricsHandler, cur, ctxDone,
                   conn, commands, hsVars, readLoop,
                   peerClosed, wire, envVars,
                   stopCall, delivered, owed, histVars>>

\* case <-ctx.Done() and case <-m.stopCh: client.Close(), return
RunConnectedStop ==
    /\ pc = "connected"
    /\ ctxDone \/ stopCh
    /\ Close(cur)
    /\ LeaveConnected
    /\ UNCHANGED <<bkVars, received,
                   client, stopCh, stoppedCh, current, metricsHandler, cur, ctxDone,
                   conn, commands, commandsClosed, hsVars, readLoop,
                   peerClosed, wire, envVars,
                   stopCall, delivered, owed, histVars>>

\* the ping frames written on the transport of Client c
Pings(c) == Cardinality({i \in 1..Len(wire[c]) : wire[c][i] = "ping"})

\* faulty variant: the tick is consumed and no ping is written
RunConnectedPing_Skips ==
    /\ pc = "connected"
    /\ pingDue
    /\ pingDue' = FALSE
    /\ UNCHANGED <<bkVars, received, mgrVars, runVars, clientVars, connVars,
                   nClients, peerFrames, metricsDue, ticks, callVars, histVars>>

\* faulty variant: a tick that finds an earlier ping on the wire takes its
\* pong for overdue, closes the Client and ends the phase
RunConnectedPing_PongDeadline ==
    /\ pc = "connected"
    /\ pingDue
    /\ pingDue' = FALSE
    /\ IF Pings(cur) > 0
       THEN /\ Close(cur)
            /\ LeaveConnected
            /\ UNCHANGED wire
       ELSE \/ /\ SendOK(cur, "ping")
               /\ UNCHANGED <<state, obsVars, pc, closed, transport, inbox>>
            \/ /\ SendFails(cur)
               /\ Close(cur)
               /\ LeaveConnected
    /\ UNCHANGED <<bkVars, received,
                   client, stopCh, stoppedCh, current, metricsHandler, cur, ctxDone,
                   conn, commands, commandsClosed, hsVars, readLoop,
                   peerClosed, nClients, peerFrames, metricsDue, ticks,
                   stopCall, delivered, owed, histVars>>

\* faulty variant: a failed ping returns without client.Close()
RunConnectedPing_NoClose ==
    /\ pc = "connected"
    /\ pingDue
    /\ pingDue' = FALSE
    /\ \/ /\ SendOK(cur, "ping")
          /\ UNCHANGED <<state, obsVars, pc>>
       \/ /\ SendFails(cur)
          /\ LeaveConnected
    /\ UNCHANGED <<bkVars, received,
                   client, stopCh, stoppedCh, current, metricsHandler, cur, ctxDone,
                   clientVars, transport, inbox,
                   peerClosed, nClients, peerFrames, metricsDue, ticks,
                   stopCall, delivered, owed, histVars>>

\* case <-pingTicker.C: client.Ping; on error client.Close() and return
RunConnectedPing ==
    /\ pc = "connected"
    /\ pingDue
    /\ pingDue' = FALSE
    /\ \/ /\ SendOK(cur, "ping")
          /\ UNCHANGED <<state, obsVars, pc, closed, transport, inbox>>
       \/ /\ SendFails(cur)
          /\ Close(cur)
          /\ LeaveConnected
    /\ UNCHANGED <<bkVars, received,
                   client, stopCh, stoppedCh, current, metricsHandler, cur, ctxDone,
                   conn, commands, commandsClosed, hsVars, readLoop,
                   peerClosed, nClients, peerFrames, metricsDue, ticks,
                   stopCall, delivered, owed, histVars>>

\* case cmd, ok := <-client.Commands() with a command: m.onCommand(cmd)
RunConnectedCommand ==
    /\ pc = "connected"
    /\ commands[cur] # <<>>
    /\ commands' = [commands EXCEPT ![cur] = Tail(@)]
    /\ IF onCommand
       THEN /\ delivered' = [delivered EXCEPT ![cur] = Append(@, Head(commands[cur]))]
            /\ owed' = owed + 1
       ELSE UNCHANGED <<delivered, owed>>
    /\ UNCHANGED <<bkVars, received,
                   mgrVars, runVars, conn, closed, commandsClosed, hsVars, readLoop,
                   connVars, envVars, stopCall, obsVars, histVars>>

\* faulty variant: the closed channel is noticed before it is drained
RunConnectedCommandsClosed_NoDrain ==
    /\ pc = "connected"
    /\ commandsClosed[cur]
    /\ LeaveConnected
    /\ UNCHANGED <<bkVars, received,
                   client, stopCh, stoppedCh, current, metricsHandler, cur, ctxDone,
                   clientVars, connVars, envVars, stopCall, delivered, owed,
                   histVars>>

\* the same case on the closed and drained channel: return
RunConnectedCommandsClosed ==
    /\ pc = "connected"
    /\ commands[cur] = <<>>
    /\ commandsClosed[cur]
    /\ LeaveConnected
    /\ UNCHANGED <<bkVars, received,
                   client, stopCh, stoppedCh, current, metricsHandler, cur, ctxDone,
                   clientVars, connVars, envVars, stopCall, delivered, owed,
                   histVars>>

\* default: return if the client is not connected; else, if the metrics
\* ticker has fired, call the handler and send (an error is only logged);
\* then sleep 10 ms
RunConnectedDefault ==
    /\ pc = "connected"
    /\ ~ctxDone /\ ~stopCh /\ ~pingDue
    /\ commands[cur] = <<>> /\ ~commandsClosed[cur]
    /\ IF ~IsConnected(cur)
       THEN /\ LeaveConnected
            /\ UNCHANGED <<wire, metricsDue, provVars>>
       ELSE /\ MetricsTicker /\ metricsDue
            /\ metricsDue' = FALSE
            /\ LET metrics == provided IN
                 /\ invoked' = [invoked EXCEPT ![cur] = Append(@, metrics)]
                 /\ SendMetrics(cur, metrics)
            /\ UNCHANGED <<state, obsVars, pc>>
    /\ UNCHANGED <<backoffCfg, backoffDuration, returned, lastOp, nCalls, sendVars,
                   sessVars, received,
                   client, stopCh, stoppedCh, current, metricsHandler, cur, ctxDone,
                   clientVars, transport, peerClosed, inbox, nClients, peerFrames,
                   pingDue, ticks, stopCall, delivered, owed, histVars>>

\* the select of the cool-down: stop or cancel, run returns
RunCooldownExit ==
    /\ pc = "cooldown"
    /\ ctxDone \/ stopCh
    /\ pc' = "done"
    /\ stoppedCh' = TRUE
    /\ UNCHANGED <<bkVars, received,
                   state, client, stopCh, current, metricsHandler, cur, ctxDone,
                   clientVars, connVars, envVars, callVars, histVars>>

\* faulty variant: run returns after the cool-down instead of looping
RunCooldownElapsed_Returns ==
    /\ pc = "cooldown"
    /\ pc' = "done"
    /\ stoppedCh' = TRUE
    /\ UNCHANGED <<bkVars, received,
                   state, client, stopCh, current, metricsHandler, cur, ctxDone,
                   clientVars, connVars, envVars, callVars, histVars>>

\* time.After(100 ms) fires: next iteration
RunCooldownElapsed ==
    /\ pc = "cooldown"
    /\ pc' = "top"
    /\ UNCHANGED <<bkVars, received,
                   mgrVars, cur, ctxDone, clientVars, connVars, envVars,
                   callVars, histVars>>

\* the two tickers of runConnected
PingTick ==
    /\ pc = "connected"
    /\ ~pingDue
    /\ ticks < MaxTicks
    /\ pingDue' = TRUE
    /\ ticks' = ticks + 1
    /\ UNCHANGED <<bkVars, received, mgrVars, runVars, clientVars, connVars,
                   nClients, peerFrames, metricsDue, callVars, histVars>>

MetricsTick ==
    /\ pc = "connected"
    /\ MetricsTicker
    /\ ~metricsDue
    /\ ticks < MaxTicks
    /\ metricsDue' = TRUE
    /\ ticks' = ticks + 1
    /\ UNCHANGED <<bkVars, received, mgrVars, runVars, clientVars, connVars,
                   nClients, peerFrames, pingDue, callVars, histVars>>

(***************************************************************************)
(* Client.readLoop, one goroutine per connected Client                     *)
(***************************************************************************)
\* time.UnixMilli(msec): seconds and nanoseconds since the epoch
UnixMilli(msec) == [sec |-> msec \div 1000, nsec |-> (msec % 1000) * 1000000]

\* time.Time{}, the zero value (year 1), which no timestamp here converts to
ZeroTime == [zero |-> TRUE]

\* v, ok := signedPayload[key].(T): the value if the key is there with that
\* type, else the zero value given
Field(p, key, kind, zero) ==
    IF key \in DOMAIN p /\ p[key].kind = kind THEN p[key].val ELSE zero

\* faulty variant: the timestamp loses its milliseconds
NewCommand_WholeSeconds(f) ==
    [ID |-> f.id,
     Signature |-> f.signature,
     RawPayload |-> f.signed_payload,
     ServerID |-> Field(f.signed_payload, "server_id", "string", ""),
     Command |-> Field(f.signed_payload, "command", "string", ""),
     Params |-> Field(f.signed_payload, "params", "object", <<>>),
     Nonce |-> Field(f.signed_payload, "nonce", "string", ""),
     Timestamp |->
         IF "timestamp" \in DOMAIN f.signed_payload
               /\ f.signed_payload["timestamp"].kind = "number"
         THEN [sec |-> f.signed_payload["timestamp"].val \div 1000, nsec |-> 0]
         ELSE ZeroTime]

\* Client.handleCommand: the Command built from a frame whose payload decodes
NewCommand(f) ==
    [ID |-> f.id,
     Signature |-> f.signature,
     RawPayload |-> f.signed_payload,
     ServerID |-> Field(f.signed_payload, "server_id", "string", ""),
     Command |-> Field(f.signed_payload, "command", "string", ""),
     Params |-> Field(f.signed_payload, "params", "object", <<>>),
     Nonce |-> Field(f.signed_payload, "nonce", "string", ""),
     Timestamp |->
         IF "timestamp" \in DOMAIN f.signed_payload
               /\ f.signed_payload["timestamp"].kind = "number"
         THEN UnixMilli(f.signed_payload["timestamp"].val)
         ELSE ZeroTime]

\* faulty variant: the new command goes to the front of the queue
Enqueue_AtFront(q, cmd) == IF Len(q) < CommandQueueCap THEN <<cmd>> \o q ELSE q

\* faulty variant: a full queue makes room by dropping its oldest command
Enqueue_DropsOldest(q, cmd) ==
    IF Len(q) < CommandQueueCap THEN Append(q, cmd) ELSE Append(Tail(q), cmd)

\* Client.handleCommand, the select: the command is queued, or dropped when
\* the queue is full
Enqueue(q, cmd) == IF Len(q) < CommandQueueCap THEN Append(q, cmd) ELSE q

\* faulty variant: a welcome read after the handshake is stored as well
ReadFrame_StoresWelcome(c) ==
    /\ readLoop[c] = "running"
    /\ ~closed[c] /\ conn[c] # "nil"
    /\ transport[c] = "open"
    /\ inbox[c] # <<>>
    /\ inbox' = [inbox EXCEPT ![c] = Tail(@)]
    /\ LET f == Head(inbox[c]) IN
         /\ IF f.type = "command"
            THEN /\ received' = [received EXCEPT ![c] = Append(@, f)]
                 /\ commands' = IF f.decodes
                                 THEN [commands EXCEPT ![c] = Enqueue(@, NewCommand(f))]
                                 ELSE commands
            ELSE UNCHANGED <<commands, received>>
         /\ IF f.type = "welcome"
            THEN StoreWelcome(c, f)
            ELSE UNCHANGED hsVars
    /\ UNCHANGED <<bkVars,
                   mgrVars, runVars, conn, closed, commandsClosed, readLoop,
                   transport, peerClosed, wire, envVars, callVars, histVars>>

\* faulty variant: the read task calls the command handler itself
ReadFrame_CallsHandler(c) ==
    /\ readLoop[c] = "running"
    /\ ~closed[c] /\ conn[c] # "nil"
    /\ transport[c] = "open"
    /\ inbox[c] # <<>>
    /\ inbox' = [inbox EXCEPT ![c] = Tail(@)]
    /\ LET f == Head(inbox[c]) IN
         IF f.type = "command"
         THEN /\ received' = [received EXCEPT ![c] = Append(@, f)]
              /\ IF f.decodes
                 THEN /\ delivered' = [delivered EXCEPT ![c] = Append(@, NewCommand(f))]
                      /\ executing' = executing \cup {<<"onCommand", "read">>}
                 ELSE UNCHANGED <<delivered, executing>>
         ELSE UNCHANGED <<received, delivered, executing>>
    /\ UNCHANGED <<backoffCfg, backoffDuration, returned, lastOp, nCalls, sendVars,
                   closeCalls, provided, mu, writer, inStop, provVars,
                   mgrVars, runVars, conn, closed, commands, commandsClosed, hsVars,
                   readLoop, transport, peerClosed, wire, envVars,
                   stopCall, owed, obsVars, histVars>>

\* faulty variant: a frame that json.Unmarshal rejects ends the read loop
ReadFrame_GarbageFatal(c) ==
    /\ readLoop[c] = "running"
    /\ ~closed[c] /\ conn[c] # "nil"
    /\ transport[c] = "open"
    /\ inbox[c] # <<>>
    /\ LET f == Head(inbox[c]) IN
         IF f.type = "garbage"
         THEN /\ CloseConn(c)
              /\ conn' = [conn EXCEPT ![c] = "nil"]
              /\ commandsClosed' = [commandsClosed EXCEPT ![c] = TRUE]
              /\ readLoop' = [readLoop EXCEPT ![c] = "done"]
              /\ UNCHANGED <<commands, received>>
         ELSE /\ inbox' = [inbox EXCEPT ![c] = Tail(@)]
              /\ IF f.type = "command"
                 THEN /\ received' = [received EXCEPT ![c] = Append(@, f)]
                      /\ commands' =
                             IF f.decodes
                             THEN [commands EXCEPT ![c] = Enqueue(@, NewCommand(f))]
                             ELSE commands
                 ELSE UNCHANGED <<commands, received>>
              /\ UNCHANGED <<conn, commandsClosed, readLoop, transport>>
    /\ UNCHANGED <<bkVars,
                   mgrVars, runVars, closed, hsVars,
                   peerClosed, wire, envVars, callVars, histVars>>

\* one iteration: a frame is read and handled (handleMessage)
ReadFrame(c) ==
    /\ readLoop[c] = "running"
    /\ ~closed[c] /\ conn[c] # "nil"
    /\ transport[c] = "open"
    /\ inbox[c] # <<>>
    /\ inbox' = [inbox EXCEPT ![c] = Tail(@)]
    /\ LET f == Head(inbox[c]) IN
         IF f.type = "command"
         THEN /\ received' = [received EXCEPT ![c] = Append(@, f)]
              /\ commands' = IF f.decodes
                              THEN [commands EXCEPT ![c] = Enqueue(@, NewCommand(f))]
                              ELSE commands
         ELSE UNCHANGED <<commands, received>>
    /\ UNCHANGED <<bkVars,
                   mgrVars, runVars, conn, closed, commandsClosed, hsVars, readLoop,
                   transport, peerClosed, wire, envVars, callVars, histVars>>

\* faulty variant: the deferred function lacks close(c.commands)
ReadExit_KeepsQueueOpen(c) ==
    /\ readLoop[c] = "running"
    /\ \/ closed[c]
       \/ conn[c] = "nil"
       \/ transport[c] # "open"
       \/ peerClosed[c] /\ inbox[c] = <<>>
    /\ IF conn[c] # "nil"
       THEN /\ CloseConn(c)
            /\ conn' = [conn EXCEPT ![c] = "nil"]
       ELSE UNCHANGED <<transport, inbox, conn>>
    /\ readLoop' = [readLoop EXCEPT ![c] = "done"]
    /\ UNCHANGED <<bkVars, received, mgrVars, runVars, closed, commands,
                   commandsClosed, hsVars, peerClosed, wire, envVars, callVars,
                   histVars>>

\* the loop returns (closeCh closed, closed flag, or ReadMessage fails on a
\* transport closed by either side) and the deferred function runs
ReadExit(c) ==
    /\ readLoop[c] = "running"
    /\ \/ closed[c]
       \/ conn[c] = "nil"
       \/ transport[c] # "open"
       \/ peerClosed[c] /\ inbox[c] = <<>>
    /\ IF conn[c] # "nil"
       THEN /\ CloseConn(c)
            /\ conn' = [conn EXCEPT ![c] = "nil"]
       ELSE UNCHANGED <<transport, inbox, conn>>
    /\ commandsClosed' = [commandsClosed EXCEPT ![c] = TRUE]
    /\ readLoop' = [readLoop EXCEPT ![c] = "done"]
    /\ UNCHANGED <<bkVars, received, mgrVars, runVars, closed, commands, hsVars,
                   peerClosed, wire, envVars, callVars, histVars>>

(***************************************************************************)
(* The peer                                                                *)
(***************************************************************************)
PeerSend(c, f) ==
    /\ transport[c] = "open"
    /\ ~peerClosed[c]
    /\ peerFrames < MaxPeerFrames
    /\ inbox' = [inbox EXCEPT ![c] = Append(@, f)]
    /\ peerFrames' = peerFrames + 1
    /\ UNCHANGED <<bkVars, received,
                   mgrVars, runVars, clientVars, transport, peerClosed, wire,
                   nClients, pingDue, metricsDue, ticks, callVars, histVars>>

PeerClose(c) ==
    /\ transport[c] = "open"
    /\ ~peerClosed[c]
    /\ peerClosed' = [peerClosed EXCEPT ![c] = TRUE]
    /\ UNCHANGED <<bkVars, received,
                   mgrVars, runVars, clientVars, transport, inbox, wire,
                   envVars, callVars, histVars>>

(***************************************************************************)
(* Callers of the Manager                                                  *)
(***************************************************************************)
\* the context passed to Start is cancelled
CtxCancel ==
    /\ ~ctxDone
    /\ ctxDone' = TRUE
    /\ UNCHANGED <<bkVars, received,
                   mgrVars, pc, cur, clientVars, connVars, envVars,
                   callVars, histVars>>

\* Manager.Stop, first statement: close(m.stopCh) panics on a closed channel
StopCall(i) ==
    /\ stopCall[i] = "idle"
    /\ \A j \in Callers : j < i => stopCall[j] # "idle"    \* callers are alike
    /\ IF stopCh
       THEN /\ stopCall' = [stopCall EXCEPT ![i] = "panicked"]
            /\ UNCHANGED stopCh
       ELSE /\ stopCall' = [stopCall EXCEPT ![i] = "waiting"]
            /\ stopCh' = TRUE
    /\ UNCHANGED <<bkVars, received,
                   state, client, stoppedCh, current, metricsHandler, runVars,
                   clientVars, connVars, envVars, delivered, owed, obsVars,
                   histVars>>

\* faulty variant: Stop returns without waiting for the run loop
StopReturn_NoWait(i) ==
    /\ stopCall[i] = "waiting"
    /\ stopCall' = [stopCall EXCEPT ![i] = "returned"]
    /\ UNCHANGED <<bkVars, received,
                   mgrVars, runVars, clientVars, connVars, envVars,
                   delivered, owed, obsVars, histVars>>

\* Manager.Stop, second statement: <-m.stoppedCh
StopReturn(i) ==
    /\ stopCall[i] = "waiting"
    /\ stoppedCh
    /\ stopCall' = [stopCall EXCEPT ![i] = "returned"]
    /\ UNCHANGED <<bkVars, received,
                   mgrVars, runVars, clientVars, connVars, envVars,
                   delivered, owed, obsVars, histVars>>

\* faulty variant: the result is sent on the Client of the attempt under way
SendCommandResult_ToAttempt ==
    /\ owed > 0
    /\ owed' = owed - 1
    /\ IF cur = 0
       THEN UNCHANGED wire
       ELSE SendOK(cur, "command_result") \/ SendFails(cur)
    /\ UNCHANGED <<bkVars, received,
                   mgrVars, runVars, clientVars, transport, peerClosed, inbox,
                   envVars, stopCall, delivered, obsVars, histVars>>

\* Manager.SendCommandResult, called by the command handler's side for a
\* command that was delivered to it, at any later time, from any goroutine
SendCommandResult ==
    /\ owed > 0
    /\ owed' = owed - 1
    /\ IF client = 0
       THEN UNCHANGED wire
       ELSE SendOK(client, "command_result") \/ SendFails(client)
    /\ UNCHANGED <<bkVars, received,
                   mgrVars, runVars, clientVars, transport, peerClosed, inbox,
                   envVars, stopCall, delivered, obsVars, histVars>>

Next ==
    \/ Start
    \/ RunTopExit
    \/ RunTopConnect
    \/ RunAttempt
    \/ RunDial
    \/ RunWelcome
    \/ RunBackoffExit
    \/ RunBackoffElapsed
    \/ RunConnectedStop
    \/ RunConnectedPing
    \/ RunConnectedCommand
    \/ RunConnectedCommandsClosed
    \/ RunConnectedDefault
    \/ RunCooldownExit
    \/ RunCooldownElapsed
    \/ PingTick
    \/ MetricsTick
    \/ \E c \in Clients : ReadFrame(c) \/ ReadExit(c)
    \/ \E c \in Clients : PeerClose(c) \/ \E f \in Frames : PeerSend(c, f)
    \/ CtxCancel
    \/ \E i \in Callers : StopCall(i) \/ StopReturn(i)
    \/ SendCommandResult

Spec == Init /\ [][Next]_vars

(***************************************************************************)
(* The scheduling the liveness properties rest on: the run goroutine keeps *)
(* running, a select does not starve a ready stop or cancel case, a dial   *)
(* ends, a pending handshake gets its reply or its deadline, and a caller  *)
(* blocked on stoppedCh resumes once it is closed.  Timers, the peer and   *)
(* the callers are not forced to act.                                      *)
(***************************************************************************)
FairSpec ==
    /\ Spec
    /\ WF_vars(RunTopExit)
    /\ WF_vars(RunAttempt)
    /\ WF_vars(RunDial)
    /\ WF_vars(RunWelcome)
    /\ WF_vars(RunBackoffExit)
    /\ WF_vars(RunConnectedStop)
    /\ WF_vars(RunCooldownExit)
    /\ \A i \in Callers : WF_vars(StopReturn(i))

(***************************************************************************)
(* Properties                                                              *)
(***************************************************************************)
Signalled == ctxDone \/ stopCh
StopReturned == \E i \in Callers : stopCall[i] = "returned"

AllowedEdges ==
    { <<StateDisconnected, StateConnecting>>,
      <<StateConnecting, StateConnected>>,
      <<StateConnecting, StateDisconnected>>,
      <<StateConnected, StateDisconnected>> }

\* C1: State() changes only along Disconnected->Connecting,
\* Connecting->Connected, Connecting->Disconnected and
\* Connected->Disconnected, whatever the peer, the timers, Stop and the
\* context do.
C1_StateEdges == [][state' # state => <<state, state'>> \in AllowedEdges]_vars

\* a second attempt is under way after a session that was connected and
\* dropped
C1_Witness ==
    /\ state = StateConnecting
    /\ nClients >= 2
    /\ \E c \in Clients : c # cur /\ hsReply[c].type = "welcome"

\* C2: Stop() returns only after the run loop has exited and every
\* transport the Manager ever opened is closed; once Stop() has returned no
\* frame is written to any transport any more.
C2_StopSynchronous ==
    /\ [](StopReturned => /\ pc = "done"
                          /\ ~leaked
                          /\ \A c \in Clients : transport[c] # "open")
    /\ [][StopReturned => wire' = wire]_vars

\* Stop() has returned after a session in which a command was delivered
\* and its result was sent back
C2_Witness ==
    /\ StopReturned
    /\ client # 0
    /\ transport[client] = "closed"
    /\ delivered[client] # <<>>
    /\ owed = 0

\* C3: every call of Stop() returns normally, also the second one.
C3_StopIdempotent == \A i \in Callers : stopCall[i] # "panicked"

\* the waits of the run loop, and the steps by which the loop leaves a wait
\* because of the stop or cancel signal
Waiting == pc \in {"welcome", "backoff", "cooldown", "connected"}
Interrupt == RunBackoffExit \/ RunCooldownExit \/ RunConnectedStop

\* C4: whenever Stop() or the cancellation is signalled while the run loop
\* is in one of its waits (handshake reply, backoff sleep, cool-down,
\* connected phase), the loop can leave that wait on the signal alone,
\* without a peer reply, a deadline or a timer.
C4_SignalInterruptsWait == (Signalled /\ Waiting) => ENABLED Interrupt

InAttempt == {"attempt", "dial", "welcome"}
EntersAttemptState == state' # state /\ state' \in {StateConnecting, StateConnected}

\* C5 as stated: once Stop() was called or the context cancelled, no
\* transition into Connecting or Connected; after the run loop has exited
\* State() is Disconnected and stays, and the observer is not called again.
C5_SignalTerminal ==
    /\ [][Signalled => ~EntersAttemptState]_vars
    /\ [](pc = "done" => state = StateDisconnected)
    /\ [][pc = "done" => UNCHANGED <<state, obsVars>>]_vars

\* C5 amended: once signalled, the run loop starts no new attempt, and only
\* an attempt that had passed the stop check before the signal can still
\* enter Connecting or Connected; after the run loop has exited State() is
\* Disconnected and stays, and the observer is not called again.
C5_SignalTerminalAmended ==
    /\ [][(Signalled /\ pc \notin InAttempt)
             => (pc' \notin InAttempt /\ ~EntersAttemptState)]_vars
    /\ [](pc = "done" => state = StateDisconnected)
    /\ [][pc = "done" => UNCHANGED <<state, obsVars>>]_vars

\* the loop has exited on a stop that arrived during a connected session
C5_Witness ==
    /\ pc = "done"
    /\ stopCh
    /\ ~ctxDone
    /\ client # 0
    /\ hsReply[client].type = "welcome"
    /\ nObserved >= 3

\* C6: a Stop() called on a started Manager eventually returns, and the run
\* loop has exited by then.
C6_StopReturns ==
    \A i \in Callers :
        (stopCall[i] = "waiting" /\ pc # "idle")
            ~> (stopCall[i] = "returned" /\ pc = "done")

\* Stop() is pending while the handshake reply is awaited
C6_Witness ==
    /\ pc = "welcome"
    /\ \E i \in Callers : stopCall[i] = "waiting"

\* C7: the observer is called exactly when State() changes, once for each
\* change and with the new value, and never when State() stays.
C7_ObserverSeesTransitions ==
    /\ [][IF state' # state
          THEN nObserved' = nObserved + 1 /\ lastObserved' = state'
          ELSE UNCHANGED obsVars]_vars
    /\ [](nObserved > 0 => lastObserved = state)

\* the loop has exited through cleanup after a session and a failed attempt
C7_Witness ==
    /\ pc = "done"
    /\ client = 0
    /\ nClients > 0
    /\ nObserved >= 5

Rejected(c) == hsReply[c].type \notin {"none", "welcome"}

\* C9: a handshake that ends without a welcome (error frame, other type,
\* undecodable frame, peer close or deadline) makes Connect fail, leaves
\* the transport closed and no read task, never becomes the Manager's
\* client, and the attempt ends in Disconnected; a read task runs, and the
\* state is Connected, only after a welcome.
C9_ConnectAllOrNothing ==
    /\ \A c \in Clients :
          Rejected(c) =>
              /\ connectErr[c] # NoError
              /\ transport[c] = "closed"
              /\ readLoop[c] = "none"
              /\ client # c
              /\ (c = cur /\ pc = "backoff") => State = StateDisconnected
    /\ \A c \in Clients : readLoop[c] # "none" => hsReply[c].type = "welcome"
    /\ State = StateConnected =>
          /\ hsReply[cur].type = "welcome"
          /\ readLoop[cur] # "none"

\* an attempt was rejected with an error frame after a session that had
\* been connected
C9_Witness ==
    /\ pc = "backoff"
    /\ hsReply[cur].type = "error"
    /\ client # 0
    /\ client # cur
    /\ hsReply[client].type = "welcome"

\* C10: the failure Connect returns for an error frame is the failure of
\* no other handshake outcome: it is not that of a failed read, and every
\* reply that yields the same failure is an error frame with the same
\* code, the same message and the same retry-after hint.
C10_RejectionCarried ==
    \A c \in Clients :
        hsReply[c].type = "error" =>
            /\ connectErr[c] # ReadError
            /\ \A f \in Frames \ WelcomeFrames :
                  WelcomeError(f) = connectErr[c] =>
                      /\ f.type = "error"
                      /\ f.code = hsReply[c].code
                      /\ f.message = hsReply[c].message
                      /\ f.retry_after_seconds = hsReply[c].retry_after_seconds

(***************************************************************************)
(* The Manager with a configured backoff (Config.InitialBackoff,           *)
(* MaxBackoff, BackoffFactor are set by the deployment): the defaults, and *)
(* a maximum equal to the initial delay.                                   *)
(***************************************************************************)
RetryConfigs ==
    { [initial |-> InitialBackoff, max |-> MaxBackoff],
      [initial |-> InitialBackoff, max |-> InitialBackoff] }

RetryInit ==
    /\ InitManager
    /\ metricsHandler = TRUE
    /\ \E cfg \in RetryConfigs : newBackoff(cfg.initial, cfg.max, DefaultMultiplier)

RetrySpec == RetryInit /\ [][Next]_vars

\* the step in which run learns that the peer answered agent_hello with an
\* error frame
RejectedStep == pc = "welcome" /\ pc' = "backoff" /\ hsReply'[cur].type = "error"

MaxCalls == 6           \* calls of Next and Reset on the backoff

\* initial, max, multiplier: the values of TestBackoff (in milliseconds),
\* the defaults, a fractional multiplier, multiplier 1, initial = max,
\* initial 0, and a negative initial
BackoffConfigs ==
    { <<100, 1000, [num |-> 2, den |-> 1]>>,
      <<InitialBackoff, MaxBackoff, DefaultMultiplier>>,
      <<3, 10, [num |-> 3, den |-> 2]>>,
      <<2, 7, [num |-> 1, den |-> 1]>>,
      <<5, 5, [num |-> 2, den |-> 1]>>,
      <<0, 5, [num |-> 2, den |-> 1]>>,
      <<0 - 2, 5, [num |-> 2, den |-> 1]>> }

BackoffInit ==
    /\ InitManager
    /\ metricsHandler = TRUE
    /\ \E cfg \in BackoffConfigs : newBackoff(cfg[1], cfg[2], cfg[3])

\* everything but the backoff's current and the record of the calls
otherVars ==
    <<state, client, stopCh, stoppedCh, metricsHandler, runVars, clientVars,
      connVars, envVars, callVars, histVars, backoffCfg, backoffDuration, received,
      sendVars, sessVars, provVars>>

\* a call of backoff.Next
CallNext ==
    /\ nCalls < MaxCalls
    /\ nCalls' = nCalls + 1
    /\ lastOp' = "next"
    /\ returned' = Append(returned, BackoffNext(current).d)
    /\ current' = BackoffNext(current).current
    /\ UNCHANGED otherVars

\* a call of backoff.Reset
CallReset ==
    /\ nCalls < MaxCalls
    /\ nCalls' = nCalls + 1
    /\ lastOp' = "reset"
    /\ returned' = <<>>
    /\ current' = BackoffReset
    /\ UNCHANGED otherVars

BackoffStep == CallNext \/ CallReset

BackoffSpec == BackoffInit /\ [][BackoffStep]_vars

\* the delays of TestBackoff: 100, 200, 400, 800, 1000, 1000, ...
TestDelays(k) == IF k >= 5 THEN 1000 ELSE 100 * 2 ^ (k - 1)

ValidConfig == initial <= max /\ multiplier.num >= multiplier.den

\* what C13 says of a backoff
Bounded ==
    /\ initial <= current /\ current <= max
    /\ \A k \in 1..Len(returned) : returned[k] <= max
    /\ \A k \in 1..(Len(returned) - 1) : returned[k] <= returned[k + 1]

\* C13 as stated: for any initial <= max and multiplier >= 1, after any
\* calls of Next and Reset current lies between initial and max, every
\* value Next returned is at most max, and the values returned since the
\* last Reset never decrease.
C13_BoundedMonotone == ValidConfig => Bounded

\* C13 amended: the same for any 0 <= initial <= max and multiplier >= 1.
C13_BoundedMonotoneNonNegative == (ValidConfig /\ initial >= 0) => Bounded

\* with multiplier 1.5 the delay has grown from 3 to the maximum after a
\* Reset: 3, 4, 6, 9, then 10
C13_Witness ==
    /\ initial = 3 /\ max = 10
    /\ nCalls > Len(returned)
    /\ returned = <<3, 4, 6, 9>>
    /\ current = max

Live == {c \in Clients : transport[c] = "open"}

\* C15: at most one transport of the Manager is open at any time: no Client
\* is left behind with an open transport, and an attempt opens its
\* transport only when no other is open.
C15_OneLiveTransport ==
    /\ ~leaked
    /\ Cardinality(Live) <= 1

\* the transport of a second attempt is open while the read task of the
\* first session, torn down, is still running
C15_Witness ==
    /\ cur # 0
    /\ transport[cur] = "open"
    /\ \E c \in Clients :
          /\ c # cur
          /\ hsReply[c].type = "welcome"
          /\ transport[c] = "closed"
          /\ readLoop[c] = "running"

\* C16: on every transport agent_hello is the first frame written and is
\* written once, a transport that is open has it on the wire, and a ping,
\* metrics or command_result frame is written only on a transport whose
\* welcome has been received.
C16_HelloFirstOnce ==
    \A c \in Clients :
        /\ transport[c] = "open" => wire[c] # <<>>
        /\ wire[c] # <<>> => wire[c][1] = "agent_hello"
        /\ \A k \in 2..Len(wire[c]) : wire[c][k] # "agent_hello"
        /\ Len(wire[c]) > 1 => hsReply[c].type = "welcome"

\* a connection on which a tick's frame and a command result followed the
\* hello
C16_Witness ==
    \E c \in Clients :
        /\ Len(wire[c]) = 3
        /\ wire[c][3] = "command_result"

(***************************************************************************)
(* One session under a burst of commands: the Manager is connected (Start, *)
(* a dial, the agent_hello, a welcome), and the peer has sent Burst(n), n  *)
(* command frames nobody has read yet, and sends nothing more.             *)
(***************************************************************************)
MaxBurst == 13          \* command frames of the burst

Burst(n) == [k \in 1..n |-> CommandFrameOf(k)]

TheWelcome ==
    [type |-> "welcome", server_id |-> "srv_123", metrics_interval_seconds |-> 30,
     signing_public_key |-> "", commands_enabled |-> TRUE]

QueueInit ==
    /\ state = StateConnected
    /\ client = 1
    /\ stopCh = FALSE
    /\ stoppedCh = FALSE
    /\ metricsHandler = TRUE
    /\ newBackoff(InitialBackoff, MaxBackoff, DefaultMultiplier)
    /\ pc = "connected"
    /\ cur = 1
    /\ ctxDone = FALSE
    /\ conn = [c \in Clients |-> IF c = 1 THEN "set" ELSE "nil"]
    /\ closed = [c \in Clients |-> FALSE]
    /\ commands = [c \in Clients |-> <<>>]
    /\ commandsClosed = [c \in Clients |-> FALSE]
    /\ serverID = [c \in Clients |-> IF c = 1 THEN TheWelcome.server_id ELSE ""]
    /\ metricsIntervalSeconds =
           [c \in Clients |-> IF c = 1 THEN TheWelcome.metrics_interval_seconds ELSE 0]
    /\ signingPublicKey =
           [c \in Clients |-> IF c = 1 THEN TheWelcome.signing_public_key ELSE ""]
    /\ commandsEnabled =
           [c \in Clients |-> IF c = 1 THEN TheWelcome.commands_enabled ELSE FALSE]
    /\ readLoop = [c \in Clients |-> IF c = 1 THEN "running" ELSE "none"]
    /\ transport = [c \in Clients |-> IF c = 1 THEN "open" ELSE "none"]
    /\ peerClosed = [c \in Clients |-> FALSE]
    /\ \E n \in 0..MaxBurst :
          /\ inbox = [c \in Clients |-> IF c = 1 THEN Burst(n) ELSE <<>>]
          /\ peerFrames = n + 1
    /\ wire = [c \in Clients |-> IF c = 1 THEN <<"agent_hello">> ELSE <<>>]
    /\ nClients = 1
    /\ pingDue = FALSE
    /\ metricsDue = FALSE
    /\ ticks = 0
    /\ stopCall = [i \in Callers |-> "idle"]
    /\ delivered = [c \in Clients |-> <<>>]
    /\ owed = 0
    /\ nObserved = 2
    /\ lastObserved = StateConnected
    /\ hsReply = [c \in Clients |-> IF c = 1 THEN TheWelcome ELSE NoReply]
    /\ connectErr = [c \in Clients |-> NoError]
    /\ leaked = FALSE
    /\ backoffDuration = 0
    /\ received = [c \in Clients |-> <<>>]
    /\ returned = <<>>
    /\ lastOp = "new"
    /\ nCalls = 0
    /\ sendErr = "none"
    /\ sendOn = 0
    /\ nSends = 0
    /\ closeCalls = [c \in Clients |-> 0]
    /\ provided = TestMetrics
    /\ invoked = [c \in Clients |-> <<>>]
    /\ metricsSent = [c \in Clients |-> <<>>]
    /\ mu = [c \in Clients |-> 0]
    /\ writer = [t \in Writers |-> Idle]
    /\ executing = {}
    /\ inStop = FALSE

\* the session: the read task, the command case and the ways out of
\* runConnected
QueueStep ==
    \/ \E c \in Clients : ReadFrame(c) \/ ReadExit(c)
    \/ RunConnectedCommand
    \/ RunConnectedCommandsClosed
    \/ RunConnectedStop
    \/ \E c \in Clients : PeerClose(c)
    \/ CtxCancel

QueueSpec == QueueInit /\ [][QueueStep]_vars

\* the read task of Client c can read: it runs and a frame is there
CanRead(c) ==
    /\ readLoop[c] = "running" /\ ~closed[c] /\ conn[c] # "nil"
    /\ transport[c] = "open" /\ inbox[c] # <<>>

\* C17: a command queue never holds more than its capacity; a command
\* frame read while the queue is full leaves the queue as it is (the new
\* command is the one dropped) and the read task has moved on to the next
\* frame; a full queue never keeps the read task from reading.
C17_QueueBounded ==
    /\ [](\A c \in Clients : Len(commands[c]) <= CommandQueueCap)
    /\ [][\A c \in Clients :
             (received'[c] # received[c] /\ Len(commands[c]) = CommandQueueCap) =>
                 /\ commands'[c] = commands[c]
                 /\ inbox'[c] = Tail(inbox[c])]_vars
    /\ [](\A c \in Clients : CanRead(c) => ENABLED ReadFrame(c))

\* the queue is full and the command read last is not in it
C17_Witness ==
    \E c \in Clients :
        /\ Len(commands[c]) = CommandQueueCap
        /\ received[c] # <<>>
        /\ received[c][Len(received[c])].decodes
        /\ \A k \in 1..Len(commands[c]) :
              commands[c][k].ID # received[c][Len(received[c])].id

\* s can be had from t by leaving elements out
RECURSIVE IsSubseq(_, _)
IsSubseq(s, t) ==
    IF s = <<>> THEN TRUE
    ELSE IF t = <<>> THEN FALSE
    ELSE IF Head(s) = Head(t) THEN IsSubseq(Tail(s), Tail(t))
    ELSE IsSubseq(s, Tail(t))

\* the ids of the command frames Client c has received, in receipt order
ReceivedIDs(c) == [k \in 1..Len(received[c]) |-> received[c][k].id]

\* the ids of the commands delivered to the handler, then of those queued
HandledIDs(c) ==
    [k \in 1..Len(delivered[c]) |-> delivered[c][k].ID]
        \o [k \in 1..Len(commands[c]) |-> commands[c][k].ID]

\* C18: within one connection the commands delivered to the handler, and
\* after them those still queued, are commands that were received, in
\* the order of receipt, and none is there twice.
C18_DeliveryInOrder ==
    \A c \in Clients :
        /\ IsSubseq(HandledIDs(c), ReceivedIDs(c))
        /\ \A j, k \in 1..Len(HandledIDs(c)) :
              j # k => HandledIDs(c)[j] # HandledIDs(c)[k]

\* eleven commands were delivered; the twelfth frame, dropped at a full
\* queue, is not among them, the thirteenth is
C18_Witness ==
    /\ Len(delivered[1]) = 11
    /\ delivered[1][11].ID = CommandFrameOf(13).id
    /\ \A k \in 1..11 : delivered[1][k].ID # CommandFrameOf(12).id

\* the time.Time t as t.UnixMilli()
TimeMillis(t) == t.sec * 1000 + t.nsec \div 1000000

\* the command d carries what the frame f holds
Carries(d, f) ==
    LET p == f.signed_payload
        has(key, kind) == key \in DOMAIN p /\ p[key].kind = kind
    IN  /\ d.ID = f.id
        /\ d.Signature = f.signature
        /\ d.RawPayload = p
        /\ has("server_id", "string") => d.ServerID = p["server_id"].val
        /\ has("command", "string") => d.Command = p["command"].val
        /\ has("params", "object") => d.Params = p["params"].val
        /\ has("nonce", "string") => d.Nonce = p["nonce"].val
        /\ has("timestamp", "number") =>
              /\ d.Timestamp # ZeroTime
              /\ TimeMillis(d.Timestamp) = p["timestamp"].val

\* C19: every command delivered to the handler carries the fields of a
\* command frame received on that connection: id and signature of the
\* frame, server_id, command, params and nonce of its signed_payload, the
\* time that is timestamp milliseconds after the epoch, and signed_payload
\* itself.
C19_CommandMapped ==
    \A c \in Clients :
        \A k \in 1..Len(delivered[c]) :
            \E j \in 1..Len(received[c]) :
                /\ received[c][j].decodes
                /\ Carries(delivered[c][k], received[c][j])

\* the first command of the burst was delivered, with its timestamp
\* 86 401 499 ms as 86 401 s and 499 000 000 ns
C19_Witness ==
    /\ delivered[1] # <<>>
    /\ delivered[1][1].ID = CommandFrameOf(1).id
    /\ delivered[1][1].Nonce = <<"nonce", 1>>
    /\ delivered[1][1].Timestamp = [sec |-> 86401, nsec |-> 499000000]

(***************************************************************************)
(* The send methods called from outside the run loop, during and after a   *)
(* session: Client.Ping, Client.SendMetrics and Client.SendCommandResult   *)
(* on either Client (the connected one, and one fresh from NewClient), and *)
(* Manager.SendCommandResult.                                              *)
(***************************************************************************)
MaxSends == 2           \* calls of the send methods

SendInit ==
    /\ QueueInit
    /\ inbox[1] = <<>>

\* Client.send as its caller sees it: the frame is written and nil is
\* returned, or an error is returned
ClientSend(c, t) ==
    /\ nSends < MaxSends
    /\ nSends' = nSends + 1
    /\ sendOn' = c
    /\ \/ SendOK(c, t) /\ sendErr' = "nil"
       \/ /\ SendFails(c)
          /\ sendErr' = IF conn[c] = "nil" THEN "not connected" ELSE "write error"
    /\ UNCHANGED <<mgrVars, runVars, clientVars, transport, peerClosed, inbox,
                   envVars, callVars, histVars, backoffCfg, backoffDuration,
                   received, returned, lastOp, nCalls, sessVars,
                   provVars>>

CallPing(c) == ClientSend(c, "ping")
CallSendMetrics(c) == ClientSend(c, "metrics")
CallSendCommandResult(c) == ClientSend(c, "command_result")

\* Manager.SendCommandResult
CallManagerSendCommandResult ==
    IF client = 0
    THEN /\ nSends < MaxSends
         /\ nSends' = nSends + 1
         /\ sendOn' = 0
         /\ sendErr' = "ErrNotConnected"
         /\ UNCHANGED <<mgrVars, runVars, clientVars, connVars, envVars, callVars,
                        histVars, backoffCfg, backoffDuration, received,
                        returned, lastOp, nCalls, sessVars, provVars>>
    ELSE CallSendCommandResult(client)

SendStep ==
    \/ \E c \in Clients : CallPing(c)
    \/ \E c \in Clients : CallSendMetrics(c)
    \/ \E c \in Clients : CallSendCommandResult(c)
    \/ CallManagerSendCommandResult
    \/ \E c \in Clients : ReadExit(c)
    \/ \E c \in Clients : PeerClose(c)
    \/ CtxCancel
    \/ RunConnectedStop
    \/ RunConnectedCommandsClosed
    \/ RunCooldownElapsed
    \/ RunTopExit

SendSpec == SendInit /\ [][SendStep]_vars

\* C20: a call of Ping, SendMetrics or SendCommandResult on a Client that
\* is not connected (no Connect yet, closed, or torn down by its read
\* task) returns an error and writes no frame; Manager.SendCommandResult
\* returns ErrNotConnected when the Manager has no client; and a call that
\* returned an error has written nothing.
C20_SendNeedsConnection ==
    /\ [][\A c \in Clients :
             (nSends' # nSends /\ sendOn' = c /\ ~IsConnected(c)) =>
                 /\ sendErr' \in {"not connected", "write error"}
                 /\ wire' = wire]_vars
    /\ [][(nSends' # nSends /\ sendOn' = 0) =>
             /\ client = 0
             /\ sendErr' = "ErrNotConnected"
             /\ wire' = wire]_vars
    /\ [][(nSends' # nSends /\ sendErr' # "nil") => wire' = wire]_vars

\* the second call, a send on the Client that Close has closed, returned
\* the error of the write
C20_Witness ==
    /\ nSends = 2
    /\ sendOn = 1
    /\ closed[1]
    /\ conn[1] # "nil"
    /\ sendErr = "write error"


(***************************************************************************)
(* Client.Close called from any goroutine, any number of times, on the     *)
(* Client of a connected session while its read task runs, reads, and      *)
(* exits on its own or because of the Close; the run loop closes the       *)
(* Client too when it is stopped.                                          *)
(***************************************************************************)
MaxCloses == 2          \* calls of Client.Close on one Client

CloseInit ==
    /\ QueueInit
    /\ Len(inbox[1]) <= 2

\* Client.Close, called from outside the run loop
CallClose(c) ==
    /\ closeCalls[c] < MaxCloses
    /\ closeCalls' = [closeCalls EXCEPT ![c] = @ + 1]
    /\ Close(c)
    /\ UNCHANGED <<mgrVars, runVars, conn, commands, commandsClosed, hsVars,
                   readLoop, peerClosed, wire, envVars, callVars, histVars,
                   backoffCfg, backoffDuration, received, returned, lastOp,
                   nCalls, sendVars, provided, provVars, mu, writer,
                   executing, inStop>>

CloseStep ==
    \/ \E c \in Clients : CallClose(c)
    \/ \E c \in Clients : ReadFrame(c) \/ ReadExit(c)
    \/ \E c \in Clients : PeerClose(c)
    \/ RunConnectedCommand
    \/ RunConnectedCommandsClosed
    \/ RunConnectedDefault
    \/ RunConnectedStop
    \/ CtxCancel

\* the read task is scheduled: it reads the frame that is there, and it
\* returns once ReadMessage fails or it sees the Client closed
CloseSpec ==
    /\ CloseInit
    /\ [][CloseStep]_vars
    /\ \A c \in Clients : WF_vars(ReadFrame(c)) /\ WF_vars(ReadExit(c))

\* the Clients whose read task was started
Started == {c \in Clients : readLoop[c] # "none"}

\* C21: Client.Close is idempotent (a call on a closed Client changes
\* nothing), and for any number of Close calls interleaved with the read
\* task exiting on its own: once the Client is closed its transport is
\* closed; the command queue is closed by the exit of the read task and by
\* nothing else, so exactly once; a read task that has exited left the
\* transport closed and the queue closed; and after a Close, or after the
\* peer closed, the read task does exit.
C21_CloseOnce ==
    /\ [][\A c \in Clients :
             (closeCalls'[c] # closeCalls[c] /\ closed[c]) =>
                 UNCHANGED <<closed, conn, transport, inbox, commands,
                             commandsClosed, readLoop>>]_vars
    /\ [](\A c \in Started : closed[c] => transport[c] = "closed")
    /\ [][\A c \in Clients :
             /\ (commandsClosed'[c] /\ ~commandsClosed[c]) =>
                    (readLoop[c] = "running" /\ readLoop'[c] = "done")
             /\ (readLoop[c] = "running" /\ readLoop'[c] = "done") =>
                    (~commandsClosed[c] /\ commandsClosed'[c])
             /\ commandsClosed[c] => commandsClosed'[c]]_vars
    /\ [](\A c \in Clients :
             readLoop[c] = "done" =>
                 commandsClosed[c] /\ transport[c] = "closed" /\ conn[c] = "nil")
    /\ \A c \in Clients :
          (readLoop[c] = "running" /\ (closed[c] \/ peerClosed[c]))
              ~> (readLoop[c] = "done")

\* Close was called twice on the connected Client, the second time after
\* its read task had exited on the peer's close, and the queue is closed
C21_Witness ==
    /\ closeCalls[1] = 2
    /\ peerClosed[1]
    /\ closed[1]
    /\ readLoop[1] = "done"
    /\ commandsClosed[1]
    /\ transport[1] = "closed"


(***************************************************************************)
(* A connected session from the moment runConnected has created its        *)
(* tickers: the Manager was started, dialled, wrote the agent_hello and    *)
(* read the welcome w; h tells whether a metrics provider is registered,   *)
(* m is the mapping it returns, box the frames the peer has sent since.    *)
(***************************************************************************)
SessionOf(w, h, m, box) ==
    /\ state = StateConnected
    /\ client = 1
    /\ stopCh = FALSE
    /\ stoppedCh = FALSE
    /\ metricsHandler = h
    /\ newBackoff(InitialBackoff, MaxBackoff, DefaultMultiplier)
    /\ pc = "connected"
    /\ cur = 1
    /\ ctxDone = FALSE
    /\ conn = [c \in Clients |-> IF c = 1 THEN "set" ELSE "nil"]
    /\ closed = [c \in Clients |-> FALSE]
    /\ commands = [c \in Clients |-> <<>>]
    /\ commandsClosed = [c \in Clients |-> FALSE]
    /\ serverID = [c \in Clients |-> IF c = 1 THEN w.server_id ELSE ""]
    /\ metricsIntervalSeconds =
           [c \in Clients |-> IF c = 1 THEN w.metrics_interval_seconds ELSE 0]
    /\ signingPublicKey =
           [c \in Clients |-> IF c = 1 THEN w.signing_public_key ELSE ""]
    /\ commandsEnabled =
           [c \in Clients |-> IF c = 1 THEN w.commands_enabled ELSE FALSE]
    /\ readLoop = [c \in Clients |-> IF c = 1 THEN "running" ELSE "none"]
    /\ transport = [c \in Clients |-> IF c = 1 THEN "open" ELSE "none"]
    /\ peerClosed = [c \in Clients |-> FALSE]
    /\ inbox = [c \in Clients |-> IF c = 1 THEN box ELSE <<>>]
    /\ peerFrames = Len(box) + 1
    /\ wire = [c \in Clients |-> IF c = 1 THEN <<"agent_hello">> ELSE <<>>]
    /\ nClients = 1
    /\ pingDue = FALSE
    /\ metricsDue = FALSE
    /\ ticks = 0
    /\ stopCall = [i \in Callers |-> "idle"]
    /\ delivered = [c \in Clients |-> <<>>]
    /\ owed = 0
    /\ nObserved = 2
    /\ lastObserved = StateConnected
    /\ hsReply = [c \in Clients |-> IF c = 1 THEN w ELSE NoReply]
    /\ connectErr = [c \in Clients |-> NoError]
    /\ leaked = FALSE
    /\ backoffDuration = 0
    /\ received = [c \in Clients |-> <<>>]
    /\ returned = <<>>
    /\ lastOp = "new"
    /\ nCalls = 0
    /\ sendErr = "none"
    /\ sendOn = 0
    /\ nSends = 0
    /\ closeCalls = [c \in Clients |-> 0]
    /\ provided = m
    /\ invoked = [c \in Clients |-> <<>>]
    /\ metricsSent = [c \in Clients |-> <<>>]
    /\ mu = [c \in Clients |-> 0]
    /\ writer = [t \in Writers |-> Idle]
    /\ executing = {}
    /\ inStop = FALSE

(***************************************************************************)
(* Keepalive.  In the session the ping ticker fires once per ping interval *)
(* (ticks counts the intervals that have passed); the run loop is taken to *)
(* reach its select within one interval, so a tick is consumed before the  *)
(* next one fires.  The peer may answer with a pong, send a command, close *)
(* or stay silent.                                                         *)
(***************************************************************************)
MaxIntervals == 3       \* ping intervals that pass in the session
MaxMetricsTicks == 2    \* firings of the metrics ticker in the session

KeepaliveInit == SessionOf(TheWelcome, TRUE, TestMetrics, <<>>)

\* pingTicker.C after one more interval
SessionPingTick ==
    /\ pc = "connected"
    /\ ~pingDue
    /\ ticks < MaxIntervals
    /\ pingDue' = TRUE
    /\ ticks' = ticks + 1
    /\ UNCHANGED <<bkVars, received, mgrVars, runVars, clientVars, connVars,
                   nClients, peerFrames, metricsDue, callVars, histVars>>

\* metricsTicker.C
SessionMetricsTick ==
    /\ pc = "connected"
    /\ MetricsTicker
    /\ ~metricsDue
    /\ Len(invoked[cur]) < MaxMetricsTicks
    /\ metricsDue' = TRUE
    /\ UNCHANGED <<bkVars, received, mgrVars, runVars, clientVars, connVars,
                   nClients, peerFrames, pingDue, ticks, callVars, histVars>>

KeepaliveStep ==
    \/ SessionPingTick
    \/ SessionMetricsTick
    \/ RunConnectedPing
    \/ RunConnectedDefault
    \/ RunConnectedCommand
    \/ RunConnectedCommandsClosed
    \/ RunConnectedStop
    \/ \E c \in Clients : ReadFrame(c) \/ ReadExit(c)
    \/ \E c \in Clients : PeerClose(c)
    \/ \E c \in Clients : PeerSend(c, [type |-> "pong"]) \/ PeerSend(c, CommandFrame)
    \/ CtxCancel

\* a select with a ready ping case takes it sooner or later: the command
\* case is the only other one that can stay ready, and select chooses among
\* its ready cases at random
KeepaliveSpec ==
    /\ KeepaliveInit
    /\ [][KeepaliveStep]_vars
    /\ WF_vars(RunConnectedPing)

ReadsFrame(c, f) ==
    /\ CanRead(c)
    /\ Head(inbox[c]) = f
    /\ Len(inbox'[c]) < Len(inbox[c])
    /\ closed'[c] = closed[c]

\* C23: a missing pong is never fatal.  The connected phase is left only
\* after a stop or cancel signal or after the peer closed the transport,
\* whether pongs came or not; reading a pong changes nothing but the
\* transport's buffer; and a session that was neither signalled nor closed
\* by the peer is Connected, whatever number of pings went unanswered.
C23_PongNotRequired ==
    /\ [][(state = StateConnected /\ state' # StateConnected) =>
             (Signalled \/ peerClosed[cur])]_vars
    /\ [][\A c \in Clients :
             ReadsFrame(c, [type |-> "pong"]) =>
                 /\ inbox' = [inbox EXCEPT ![c] = Tail(@)]
                 /\ UNCHANGED <<mgrVars, runVars, clientVars, transport, peerClosed,
                                wire, envVars, callVars, histVars, bkVars,
                                received>>]_vars
    /\ []((~Signalled /\ ~peerClosed[cur]) =>
             (pc = "connected" /\ state = StateConnected /\ IsConnected(cur)))

\* three pings are on the wire, the peer has sent nothing since its
\* welcome and keeps the transport open, and the Manager is Connected
C23_Witness ==
    /\ Pings(cur) = 3
    /\ peerFrames = 1
    /\ ~peerClosed[cur]
    /\ transport[cur] = "open"
    /\ ~Signalled
    /\ state = StateConnected
    /\ ~pingDue


(***************************************************************************)
(* A session under a stream of commands that does not end.  The peer keeps *)
(* up to StreamWindow frames in flight; the histories of the frames sent,  *)
(* read and delivered, which such a stream would make grow for ever, are   *)
(* not kept here: the read task and the command case are the same steps    *)
(* without them.                                                           *)
(***************************************************************************)
StreamWindow == 2       \* command frames in flight on the transport

StreamInit == SessionOf(TheWelcome, TRUE, TestMetrics, <<>>)

\* the peer sends one more command
PeerStream(c) ==
    /\ transport[c] = "open"
    /\ ~peerClosed[c]
    /\ Len(inbox[c]) < StreamWindow
    /\ inbox' = [inbox EXCEPT ![c] = Append(@, CommandFrame)]
    /\ UNCHANGED <<bkVars, received,
                   mgrVars, runVars, clientVars, transport, peerClosed, wire,
                   envVars, callVars, histVars>>

\* Client.readLoop, one iteration on a command frame: handleCommand
StreamRead(c) ==
    /\ readLoop[c] = "running"
    /\ ~closed[c] /\ conn[c] # "nil"
    /\ transport[c] = "open"
    /\ inbox[c] # <<>>
    /\ inbox' = [inbox EXCEPT ![c] = Tail(@)]
    /\ LET f == Head(inbox[c]) IN
         commands' = IF f.type = "command" /\ f.decodes
                     THEN [commands EXCEPT ![c] = Enqueue(@, NewCommand(f))]
                     ELSE commands
    /\ UNCHANGED <<bkVars, received,
                   mgrVars, runVars, conn, closed, commandsClosed, hsVars, readLoop,
                   transport, peerClosed, wire, envVars, callVars, histVars>>

\* case cmd, ok := <-client.Commands() with a command: m.onCommand(cmd),
\* which returns
StreamCommand ==
    /\ pc = "connected"
    /\ commands[cur] # <<>>
    /\ commands' = [commands EXCEPT ![cur] = Tail(@)]
    /\ UNCHANGED <<bkVars, received,
                   mgrVars, runVars, conn, closed, commandsClosed, hsVars, readLoop,
                   connVars, envVars, callVars, histVars>>

StreamStep ==
    \/ SessionPingTick
    \/ SessionMetricsTick
    \/ RunConnectedPing
    \/ RunConnectedDefault
    \/ StreamCommand
    \/ RunConnectedCommandsClosed
    \/ RunConnectedStop
    \/ \E c \in Clients : StreamRead(c) \/ ReadExit(c)
    \/ \E c \in Clients : PeerStream(c) \/ PeerClose(c)
    \/ CtxCancel

\* the run loop and the read task keep running; a select takes each of its
\* ready cases sooner or later, and its default case whenever it comes to
\* the select with no case ready
StreamSpec ==
    /\ StreamInit
    /\ [][StreamStep]_vars
    /\ WF_vars(RunConnectedStop)
    /\ WF_vars(RunConnectedPing)
    /\ WF_vars(StreamCommand)
    /\ WF_vars(RunConnectedCommandsClosed)
    /\ SF_vars(RunConnectedDefault)
    /\ \A c \in Clients : WF_vars(StreamRead(c)) /\ WF_vars(ReadExit(c))

\* C24: with a provider registered and a positive advertised interval,
\* every tick of the metrics ticker in a connected phase is followed by one
\* invocation of the provider (or by the end of the phase), even while
\* pings are due and commands keep arriving; and a metrics frame is written
\* only with the mapping of the invocation made for it.
C24_MetricsEveryTick ==
    /\ \A k \in 0..MaxMetricsTicks :
          (pc = "connected" /\ MetricsTicker /\ metricsDue /\ Len(invoked[cur]) = k)
              ~> (pc # "connected" \/ Len(invoked[cur]) = k + 1)
    /\ [][\A c \in Clients :
             metricsSent'[c] # metricsSent[c] =>
                 /\ invoked'[c] = Append(invoked[c], provided)
                 /\ metricsSent'[c] = Append(metricsSent[c], provided)]_vars


(***************************************************************************)
(* Sessions with and without a metrics provider, after welcomes that       *)
(* advertise a positive, a zero and a negative interval.                   *)
(***************************************************************************)
SessionWelcomes ==
    WelcomeFrames \cup
    { [type |-> "welcome", server_id |-> "srv_789", metrics_interval_seconds |-> 0 - 5,
       signing_public_key |-> "", commands_enabled |-> TRUE] }

MetricsInit ==
    \E w \in SessionWelcomes, h \in BOOLEAN,
       m \in {TestMetrics, [cpu |-> 7, mem |-> 0]} :
        SessionOf(w, h, m, <<>>)

MetricsSpec == MetricsInit /\ [][KeepaliveStep]_vars

\* C25: the metrics ticker has fired only if a provider is registered and
\* the interval of the session's welcome is positive; on a Client of a
\* session without a provider or with an advertised interval <= 0 the
\* provider was never invoked and no metrics frame was written.
C25_MetricsTimerGuarded ==
    /\ (pc = "connected" /\ metricsDue) =>
           (metricsHandler /\ metricsIntervalSeconds[cur] > 0)
    /\ \A c \in Clients :
          ~(metricsHandler /\ metricsIntervalSeconds[c] > 0) =>
              /\ invoked[c] = <<>>
              /\ metricsSent[c] = <<>>
              /\ \A i \in 1..Len(wire[c]) : wire[c][i] # "metrics"

\* a provider is registered and the welcome advertised -5: three ping
\* intervals have passed, with their pings, and no metrics
C25_Witness ==
    /\ pc = "connected"
    /\ metricsHandler
    /\ metricsIntervalSeconds[cur] < 0
    /\ ticks = 3
    /\ Pings(cur) = 3
    /\ invoked[cur] = <<>>


(***************************************************************************)
(* Failed writes of the connected phase, as steps: the ping tick is        *)
(* consumed, the provider was invoked, or a result owed was handed to      *)
(* Manager.SendCommandResult with a client set, and no frame was written.  *)
(***************************************************************************)
PingWriteFails ==
    pc = "connected" /\ pingDue /\ ~pingDue' /\ wire' = wire

MetricsWriteFails ==
    /\ pc = "connected"
    /\ invoked'[cur] # invoked[cur]
    /\ metricsSent'[cur] = metricsSent[cur]

ResultWriteFails ==
    owed' < owed /\ client # 0 /\ wire' = wire

\* C26: a write error on a live connection ends the connected phase: the
\* step in which a ping, metrics or command_result write fails while the
\* Manager is Connected takes the Manager to Disconnected, on the way to a
\* new connection attempt.
C26_WriteErrorEndsPhase ==
    [][(state = StateConnected
            /\ (PingWriteFails \/ MetricsWriteFails \/ ResultWriteFails)) =>
          (state' = StateDisconnected /\ pc' = "cooldown")]_vars


(***************************************************************************)
(* Reconnection: a connected session and all that can follow it, the run   *)
(* loop with its next attempts included.  The run loop and the read task   *)
(* keep running and the timers of the waits fire; the peer, the tickers    *)
(* and the context are free.                                               *)
(***************************************************************************)
ReconnectInit == SessionOf(TheWelcome, TRUE, TestMetrics, <<>>)

\* what the peer sends: a welcome, a command, a rejection
ReconnectFrames ==
    { TheWelcome, CommandFrame,
      [type |-> "error", code |-> "rate_limited", message |-> "slow down",
       retry_after_seconds |-> 60] }

ReconnectStep ==
    \/ RunTopExit
    \/ RunTopConnect
    \/ RunAttempt
    \/ RunDial
    \/ RunWelcome
    \/ RunBackoffExit
    \/ RunBackoffElapsed
    \/ RunConnectedStop
    \/ RunConnectedPing
    \/ RunConnectedCommand
    \/ RunConnectedCommandsClosed
    \/ RunConnectedDefault
    \/ RunCooldownExit
    \/ RunCooldownElapsed
    \/ PingTick
    \/ MetricsTick
    \/ \E c \in Clients : ReadFrame(c) \/ ReadExit(c)
    \/ \E c \in Clients : PeerClose(c) \/ \E f \in ReconnectFrames : PeerSend(c, f)
    \/ CtxCancel

\* the run goroutine and the read tasks are scheduled, a ready case of a
\* select is taken, and the timers of the waits fire
Scheduling ==
    /\ WF_vars(RunTopExit)
    /\ WF_vars(RunTopConnect)
    /\ WF_vars(RunAttempt)
    /\ WF_vars(RunDial)
    /\ WF_vars(RunWelcome)
    /\ WF_vars(RunBackoffExit)
    /\ WF_vars(RunBackoffElapsed)
    /\ WF_vars(RunConnectedStop)
    /\ WF_vars(RunConnectedPing)
    /\ WF_vars(RunConnectedCommand)
    /\ WF_vars(RunConnectedCommandsClosed)
    /\ WF_vars(RunConnectedDefault)
    /\ WF_vars(RunCooldownExit)
    /\ WF_vars(RunCooldownElapsed)
    /\ \A c \in Clients : WF_vars(ReadFrame(c)) /\ WF_vars(ReadExit(c))

ReconnectSpec ==
    /\ ReconnectInit
    /\ [][ReconnectStep]_vars
    /\ Scheduling

\* C27: when the peer closes the transport of the connected session, the
\* Manager goes to Disconnected; the phase it leaves is followed by the
\* fixed cool-down, not by a backoff wait; from the cool-down, unless
\* stopped or cancelled, it starts the second attempt (Connecting); and a
\* second handshake that the peer welcomes ends in Connected, on the new
\* Client.
C27_ReconnectsAfterDrop ==
    /\ (pc = "connected" /\ nClients = 1 /\ peerClosed[cur])
           ~> (state = StateDisconnected)
    /\ [][(pc = "connected" /\ pc' # "connected") =>
             (pc' = "cooldown" /\ state' = StateDisconnected
                 /\ current' = current /\ backoffDuration' = 0)]_vars
    /\ (pc = "cooldown" /\ nClients = 1)
           ~> (Signalled \/ (state = StateConnecting /\ nClients = 2))
    /\ (pc = "welcome" /\ nClients = 2
            /\ inbox[cur] # <<>> /\ Head(inbox[cur]).type = "welcome")
           ~> (state = StateConnected /\ nClients = 2 /\ client = cur)

\* the peer closed the first session and welcomed the second handshake:
\* the Manager, neither stopped nor cancelled, is Connected on the second
\* Client
C27_Witness ==
    /\ state = StateConnected
    /\ pc = "connected"
    /\ nClients = 2
    /\ client = 2
    /\ peerClosed[1]
    /\ transport[1] = "closed"
    /\ transport[2] = "open"
    /\ ~Signalled


(***************************************************************************)
(* The same from a Manager that is started: attempts that fail at the      *)
(* dial, at the agent_hello, on a rejection, a frame that is no welcome, a *)
(* close or a timeout of the handshake, and sessions that end.             *)
(***************************************************************************)
RecoverSpec ==
    /\ Init
    /\ [][Start \/ ReconnectStep]_vars
    /\ WF_vars(Start)
    /\ Scheduling

\* the run loop is between two attempts
Retrying == pc \in {"backoff", "cooldown", "top"}

\* C28: no failure is fatal to the Manager.  The run loop exits only after
\* Stop or cancel; after a failed attempt or a session that ended the
\* Manager is Disconnected and waits; and from there, unless stopped or
\* cancelled, it starts the next attempt, whatever number of attempts came
\* before.
C28_NoFailureFatal ==
    /\ [](pc = "done" => Signalled)
    /\ [](pc \in {"backoff", "cooldown"} => state = StateDisconnected)
    /\ [][(pc \in {"dial", "welcome", "connected"} /\ pc' # pc) =>
             pc' \in {"welcome", "connected", "backoff", "cooldown"}]_vars
    /\ \A n \in 1..(MaxAttempts - 1) :
          (Retrying /\ nClients = n)
              ~> (Signalled \/ (state = StateConnecting /\ nClients = n + 1))

\* the first attempt has failed (the backoff has advanced), nobody stopped
\* or cancelled, and the second attempt is under way
C28_Witness ==
    /\ state = StateConnecting
    /\ pc = "dial"
    /\ nClients = 2
    /\ client = 0
    /\ current > initial
    /\ ~Signalled


(***************************************************************************)
(* A session in which the peer has sent frames of every kind after its     *)
(* welcome: pongs, error frames, frames of unknown type (a second welcome  *)
(* among them), frames that do not decode, and commands.                   *)
(***************************************************************************)
MaxNoise == 2           \* frames the peer has sent after the welcome

NoiseFrames ==
    OtherFrames \cup ErrorFrames \cup {TheWelcome, CommandFrame}

\* the sequences of at most n frames
FrameSeqs(n) == UNION { [1..k -> NoiseFrames] : k \in 0..n }

NoiseInit ==
    \E box \in FrameSeqs(MaxNoise) : SessionOf(TheWelcome, TRUE, TestMetrics, box)

\* the read task is scheduled
NoiseSpec ==
    /\ NoiseInit
    /\ [][QueueStep]_vars
    /\ \A c \in Clients : WF_vars(ReadFrame(c)) /\ WF_vars(ReadExit(c))

\* C29: after the handshake, reading a frame that is no command (a pong,
\* an error frame, a frame of unknown type, a frame that does not decode)
\* changes nothing but the transport's buffer: nothing is queued, the
\* transport stays open, the read task keeps running, the Manager stays
\* Connected; and the read task goes on to the frames behind it.
C29_NoiseDiscarded ==
    /\ [][\A c \in Clients : \A f \in NoiseFrames :
             (f.type # "command" /\ ReadsFrame(c, f)) =>
                 /\ inbox' = [inbox EXCEPT ![c] = Tail(@)]
                 /\ UNCHANGED <<mgrVars, runVars, clientVars, transport, peerClosed,
                                wire, envVars, callVars, histVars, bkVars,
                                received>>
                 /\ readLoop'[c] = "running"
                 /\ IsConnected(c)'
                 /\ state' = StateConnected]_vars
    /\ \A n \in 1..MaxNoise :
          (Len(inbox[1]) = n) ~> (Len(inbox[1]) < n)

\* the peer sent a frame that does not decode and then a command: both
\* were read, the command is queued, and the session is as it was
C29_Witness ==
    /\ peerFrames = 3
    /\ inbox[1] = <<>>
    /\ Len(received[1]) = 1
    /\ Len(commands[1]) = 1
    /\ readLoop[1] = "running"
    /\ transport[1] = "open"
    /\ IsConnected(1)
    /\ state = StateConnected
    /\ pc = "connected"


(***************************************************************************)
(* Client.send step by step, for tasks that call it at the same time on    *)
(* the Client of a connected session: the run loop with a ping or metrics  *)
(* (task 1) and callers of Manager.SendCommandResult.  The read task and   *)
(* Close take c.mu too, so they wait for a write in progress.              *)
(***************************************************************************)
MaxWire == 3            \* frames on the wire after which no send is begun

WriteInit == SessionOf(TheWelcome, TRUE, TestMetrics, <<>>)

sendLeft == <<mgrVars, runVars, clientVars, transport, peerClosed, inbox, envVars,
              callVars, histVars, backoffCfg, backoffDuration, received, returned,
              lastOp, nCalls, sendVars, closeCalls, provided, provVars,
              executing, inStop>>

\* faulty variant: the write takes the lock shared, as RLock does
Lock_Shared(c, t) == mu' = [mu EXCEPT ![c] = t]

\* c.mu.Lock() by task t
Lock(c, t) ==
    /\ mu[c] = 0
    /\ mu' = [mu EXCEPT ![c] = t]

\* c.mu.Unlock()
Unlock(c) == mu' = [mu EXCEPT ![c] = 0]

\* send up to json.Marshal: conn is read under RLock; with no conn the call
\* returns "not connected"
SendEnter(t, ty) ==
    /\ writer[t] = Idle
    /\ client # 0
    /\ Len(wire[client]) < MaxWire
    /\ mu[client] = 0
    /\ writer' = IF conn[client] = "nil"
                 THEN writer
                 ELSE [writer EXCEPT ![t] = [at |-> "marshalled", on |-> client,
                                             type |-> ty]]
    /\ UNCHANGED <<sendLeft, wire, mu>>

\* c.mu.Lock() is acquired and conn.WriteMessage begins
SendLock(t) ==
    /\ writer[t].at = "marshalled"
    /\ Lock(writer[t].on, t)
    /\ writer' = [writer EXCEPT ![t].at = "writing"]
    /\ UNCHANGED <<sendLeft, wire>>

\* conn.WriteMessage ends, with the frame written or with an error;
\* c.mu.Unlock(); send returns
SendWrite(t) ==
    /\ writer[t].at = "writing"
    /\ SendOK(writer[t].on, writer[t].type) \/ SendFails(writer[t].on)
    /\ Unlock(writer[t].on)
    /\ writer' = [writer EXCEPT ![t] = Idle]
    /\ UNCHANGED sendLeft

WriteStep ==
    \/ SendEnter(1, "ping")
    \/ SendEnter(1, "metrics")
    \/ \E t \in Writers \ {1} : SendEnter(t, "command_result")
    \/ \E t \in Writers : SendLock(t)
    \/ \E t \in Writers : SendWrite(t)
    \/ \E c \in Clients : PeerClose(c)
    \/ \E c \in Clients : mu[c] = 0 /\ ReadExit(c)
    \/ CtxCancel
    \/ mu[cur] = 0 /\ RunConnectedStop

WriteSpec == WriteInit /\ [][WriteStep]_vars

\* the tasks that have a write in progress on the transport of Client c
Writing(c) == {t \in Writers : writer[t].at = "writing" /\ writer[t].on = c}

\* C30: at no time are two writes in progress on the same transport; a
\* write in progress holds c.mu, and frames get on the wire one at a time.
C30_WritesSerialized ==
    /\ [](\A c \in Clients :
             /\ Cardinality(Writing(c)) <= 1
             /\ \A t \in Writing(c) : mu[c] = t)
    /\ [][\A c \in Clients : Len(wire'[c]) <= Len(wire[c]) + 1]_vars

\* one task is writing while two others have passed the check of conn and
\* wait for the lock
C30_Witness ==
    /\ Cardinality(Writing(1)) = 1
    /\ Cardinality({t \in Writers : writer[t].at = "marshalled"}) = 2
    /\ Len(wire[1]) = 2


(***************************************************************************)
(* Several sessions in a row, from a Manager that is started: the peer     *)
(* answers each handshake with one of the welcomes or a rejection, or      *)
(* closes; in a session it sends commands, which carry the number of the   *)
(* connection they are sent on, and may close.                             *)
(***************************************************************************)
MaxSessions == 3        \* Clients the run loop may create
MaxSessionCommands == 1 \* command frames the peer sends in one session

SessionsInit ==
    /\ InitManager
    /\ metricsHandler = TRUE
    /\ newBackoff(InitialBackoff, MaxBackoff, DefaultMultiplier)

\* the default case of the select at the top of the loop
SessionsTopConnect ==
    /\ pc = "top"
    /\ ~ctxDone /\ ~stopCh
    /\ nClients < MaxSessions
    /\ pc' = "attempt"
    /\ UNCHANGED <<bkVars, received,
                   mgrVars, cur, ctxDone, clientVars, connVars, envVars,
                   callVars, histVars>>

\* the peer's reply to the agent_hello
SessionsPeerReply(f) ==
    /\ pc = "welcome"
    /\ transport[cur] = "open"
    /\ ~peerClosed[cur]
    /\ inbox[cur] = <<>>
    /\ inbox' = [inbox EXCEPT ![cur] = <<f>>]
    /\ UNCHANGED <<bkVars, received,
                   mgrVars, runVars, clientVars, transport, peerClosed, wire,
                   envVars, callVars, histVars>>

\* the peer sends a command on the connection of the session
SessionsPeerCommand ==
    /\ pc = "connected"
    /\ transport[cur] = "open"
    /\ ~peerClosed[cur]
    /\ Len(received[cur]) + Len(inbox[cur]) < MaxSessionCommands
    /\ inbox' = [inbox EXCEPT ![cur] = Append(@, CommandFrameOf(nClients))]
    /\ UNCHANGED <<bkVars, received,
                   mgrVars, runVars, clientVars, transport, peerClosed, wire,
                   envVars, callVars, histVars>>

SessionsStep ==
    \/ Start
    \/ RunTopExit
    \/ SessionsTopConnect
    \/ RunAttempt
    \/ RunDial
    \/ RunWelcome
    \/ RunBackoffExit
    \/ RunBackoffElapsed
    \/ RunConnectedStop
    \/ RunConnectedPing
    \/ RunConnectedCommand
    \/ RunConnectedCommandsClosed
    \/ RunConnectedDefault
    \/ RunCooldownExit
    \/ RunCooldownElapsed
    \/ PingTick
    \/ MetricsTick
    \/ \E c \in Clients : ReadFrame(c) \/ ReadExit(c)
    \/ \E c \in Clients : PeerClose(c)
    \/ \E f \in WelcomeFrames \cup {CHOOSE e \in ErrorFrames : e.retry_after_seconds = 60} :
          SessionsPeerReply(f)
    \/ SessionsPeerCommand
    \/ CtxCancel

SessionsSpec == SessionsInit /\ [][SessionsStep]_vars

\* the welcome of the newest successful handshake
NewestWelcome == hsReply[cur]

\* C31: each successful handshake begins a fresh session.  While the
\* Manager is Connected its Client is the one of the newest handshake, and
\* the accessors return the values of that handshake's welcome; the metrics
\* ticker exists only if the newest welcome advertised a positive
\* interval; the session starts with an empty command queue; and a command
\* delivered to the handler was received on the connection of the newest
\* handshake.
C31_FreshSession ==
    /\ [](state = StateConnected =>
             /\ client = cur
             /\ NewestWelcome.type = "welcome"
             /\ ManagerServerID = NewestWelcome.server_id
             /\ ManagerSigningPublicKey = NewestWelcome.signing_public_key
             /\ metricsIntervalSeconds[client] = NewestWelcome.metrics_interval_seconds
             /\ commandsEnabled[client] = NewestWelcome.commands_enabled)
    /\ [](pc = "connected" =>
             (MetricsTicker <=> NewestWelcome.metrics_interval_seconds > 0))
    /\ [][(metricsDue' /\ ~metricsDue) =>
             NewestWelcome.metrics_interval_seconds > 0]_vars
    /\ [][(state' = StateConnected /\ state # StateConnected) =>
             (commands'[client'] = <<>> /\ delivered'[client'] = <<>>)]_vars
    /\ [][(\E c \in Clients : Len(delivered'[c]) > Len(delivered[c])) =>
             /\ state = StateConnected
             /\ delivered' = [delivered EXCEPT ![client] =
                                 Append(@, NewCommand(CommandFrameOf(nClients)))]
             /\ \E i \in 1..Len(received[client]) :
                   received[client][i] = CommandFrameOf(nClients)]_vars

\* the second session, after another welcome than the first, has delivered
\* its command while the command of the first session, which a failed ping
\* ended, is still in the queue of the first Client
C31_Witness ==
    /\ state = StateConnected
    /\ nClients = 2
    /\ client = 2
    /\ hsReply[1].type = "welcome"
    /\ hsReply[2].type = "welcome"
    /\ hsReply[1].metrics_interval_seconds > 0
    /\ hsReply[2].metrics_interval_seconds = 0
    /\ ManagerServerID = "srv_456"
    /\ Len(commands[1]) = 1
    /\ Len(delivered[2]) = 1


\* C32: every successful handshake resets the backoff.  While Connected
\* the delay is the initial one, and the first failed attempt after a
\* successful handshake (none has failed since) is followed by a wait of
\* exactly the initial delay, whatever failures preceded the success.
C32_SuccessResetsBackoff ==
    /\ [](state = StateConnected => current = initial)
    /\ [][(pc' = "backoff" /\ pc # "backoff" /\ client # 0 /\ backoffDuration = 0) =>
             backoffDuration' = initial]_vars

\* the first attempt failed, the second was welcomed, the third failed:
\* the run loop waits the initial delay
C32_Witness ==
    /\ pc = "backoff"
    /\ nClients = 3
    /\ client = 1
    /\ cur = 2
    /\ backoffDuration = initial
    /\ current = Scale(initial, multiplier)
    /\ ~Signalled

\* C36: the backoff is consumed and advanced only by failed attempts.  A
\* connected phase that ends is followed by the cool-down with the backoff
\* untouched; the delay changes only when a connect returns; a backoff wait
\* is entered only by an attempt that failed; and in every cool-down the
\* delay is the initial one, however many sessions the peer has dropped.
C36_BackoffOnlyOnFailure ==
    /\ [][(pc = "connected" /\ pc' # "connected") =>
             (pc' = "cooldown" /\ current' = current /\ backoffDuration' = 0)]_vars
    /\ [][(current' # current \/ backoffDuration' # backoffDuration) =>
             pc \in {"dial", "welcome"}]_vars
    /\ [][current' > current => (pc' = "backoff" /\ connectErr'[cur] # NoError)]_vars
    /\ [](pc = "backoff" => connectErr[cur] # NoError)
    /\ [](pc = "cooldown" => (current = initial /\ backoffDuration = 0))

\* the peer welcomed three handshakes and dropped each session: the third
\* cool-down, with the delay still the initial one
C36_Witness ==
    /\ pc = "cooldown"
    /\ nClients = 3
    /\ client = 1
    /\ hsReply[1].type = "welcome"
    /\ hsReply[2].type = "welcome"
    /\ peerClosed[1] /\ peerClosed[2]
    /\ current = initial
    /\ ~Signalled

\* C33: whenever the Manager is Disconnected it has no open transport; a
\* connected phase that ends, for whatever reason, leaves the transport of
\* its Client closed and the Manager Disconnected.
C33_DisconnectedHasNoTransport ==
    /\ [](State = StateDisconnected => Live = {})
    /\ [][(pc = "connected" /\ pc' # "connected") =>
             (transport'[cur] = "closed" /\ State' = StateDisconnected)]_vars

\* a failed ping has ended the phase: the run loop closed the Client, whose
\* read task has not noticed yet, and nobody stopped or cancelled
C33_Witness ==
    /\ State = StateDisconnected
    /\ pc = "cooldown"
    /\ closed[cur]
    /\ transport[cur] = "closed"
    /\ readLoop[cur] = "running"
    /\ ~Signalled


(***************************************************************************)
(* A session with the collaborator callbacks as calls that take time: the  *)
(* command handler (m.onCommand), the metrics provider (m.metricsHandler)  *)
(* and the state observer (m.onStateChange) begin, run while other tasks   *)
(* take steps, and return.  pc tells which callback the run loop is in.    *)
(* A callback may call Manager.Stop.  The peer has sent two commands.      *)
(***************************************************************************)
MaxCbCommands == 2      \* command frames of the session
MaxCbTicks == 2         \* ticker firings of the session

CbInit == SessionOf(TheWelcome, TRUE, TestMetrics, Burst(MaxCbCommands))

Callbacks == {"onCommand", "metricsHandler", "onStateChange"}

\* what no step of the session changes
cbLeft == <<backoffCfg, backoffDuration, returned, lastOp, nCalls, sendVars,
            closeCalls, provided, mu, writer, received, histVars,
            nClients, peerFrames, client, stoppedCh, current, metricsHandler,
            cur, ctxDone, conn, commandsClosed, hsVars, readLoop, peerClosed,
            stopCall>>

\* the tickers fire whatever the run loop is doing
CbPingTick ==
    /\ pc \in {"connected", "onCommand", "metricsHandler"}
    /\ ~pingDue
    /\ ticks < MaxCbTicks
    /\ pingDue' = TRUE
    /\ ticks' = ticks + 1
    /\ UNCHANGED <<cbLeft, state, stopCh, pc, closed, commands, transport, inbox,
                   wire, metricsDue, delivered, owed, obsVars, provVars,
                   executing, inStop>>

CbMetricsTick ==
    /\ pc \in {"connected", "onCommand", "metricsHandler"}
    /\ MetricsTicker
    /\ ~metricsDue
    /\ ticks < MaxCbTicks
    /\ metricsDue' = TRUE
    /\ ticks' = ticks + 1
    /\ UNCHANGED <<cbLeft, state, stopCh, pc, closed, commands, transport, inbox,
                   wire, pingDue, delivered, owed, obsVars, provVars,
                   executing, inStop>>

\* case <-pingTicker.C, the ping is written
CbPing ==
    /\ pc = "connected"
    /\ pingDue
    /\ pingDue' = FALSE
    /\ SendOK(cur, "ping")
    /\ UNCHANGED <<cbLeft, state, stopCh, pc, closed, commands, transport, inbox,
                   metricsDue, ticks, delivered, owed, obsVars, provVars,
                   executing, inStop>>

\* case cmd, ok := <-client.Commands() with a command: m.onCommand(cmd) is
\* called
CbCommandBegin ==
    /\ pc = "connected"
    /\ commands[cur] # <<>>
    /\ onCommand
    /\ commands' = [commands EXCEPT ![cur] = Tail(@)]
    /\ delivered' = [delivered EXCEPT ![cur] = Append(@, Head(commands[cur]))]
    /\ owed' = owed + 1
    /\ pc' = "onCommand"
    /\ executing' = executing \cup {<<"onCommand", "run">>}
    /\ UNCHANGED <<cbLeft, state, stopCh, closed, transport, inbox, wire,
                   pingDue, metricsDue, ticks, obsVars, provVars, inStop>>

\* default, the client is connected and the metrics ticker has fired:
\* m.metricsHandler() is called
CbMetricsBegin ==
    /\ pc = "connected"
    /\ ~ctxDone /\ ~stopCh /\ ~pingDue
    /\ commands[cur] = <<>> /\ ~commandsClosed[cur]
    /\ IsConnected(cur)
    /\ MetricsTicker /\ metricsDue
    /\ metricsDue' = FALSE
    /\ invoked' = [invoked EXCEPT ![cur] = Append(@, provided)]
    /\ pc' = "metricsHandler"
    /\ executing' = executing \cup {<<"metricsHandler", "run">>}
    /\ UNCHANGED <<cbLeft, state, stopCh, closed, commands, transport, inbox, wire,
                   pingDue, ticks, delivered, owed, obsVars, metricsSent, inStop>>

\* runConnected returns (stop or cancel, a failed ping, the closed queue,
\* the client not connected); run: setState(StateDisconnected), which calls
\* m.onStateChange
CbLeave ==
    /\ pc = "connected"
    /\ \/ /\ ctxDone \/ stopCh
          /\ Close(cur)
          /\ UNCHANGED <<wire, pingDue>>
       \/ /\ pingDue
          /\ pingDue' = FALSE
          /\ SendFails(cur)
          /\ Close(cur)
       \/ /\ commands[cur] = <<>> /\ commandsClosed[cur]
          /\ UNCHANGED <<closed, transport, inbox, wire, pingDue>>
       \/ /\ ~ctxDone /\ ~stopCh /\ ~pingDue
          /\ commands[cur] = <<>> /\ ~commandsClosed[cur]
          /\ ~IsConnected(cur)
          /\ UNCHANGED <<closed, transport, inbox, wire, pingDue>>
    /\ setState(StateDisconnected)
    /\ pc' = "onStateChange"
    /\ executing' = executing \cup {<<"onStateChange", "run">>}
    /\ UNCHANGED <<cbLeft, stopCh, commands, metricsDue, ticks, delivered, owed,
                   provVars, inStop>>

\* the callback in progress on the run-loop task calls Manager.Stop:
\* close(m.stopCh), then it waits for m.stoppedCh
CbStop ==
    /\ pc \in Callbacks
    /\ ~inStop
    /\ ~stopCh
    /\ stopCh' = TRUE
    /\ inStop' = TRUE
    /\ UNCHANGED <<cbLeft, state, pc, closed, commands, transport, inbox, wire,
                   pingDue, metricsDue, ticks, delivered, owed, obsVars, provVars,
                   executing>>

\* faulty variant: Stop returns to the callback without waiting
CbReturn_StopNoWait ==
    /\ pc \in Callbacks
    /\ executing' = executing \ {<<pc, "run">>}
    /\ inStop' = FALSE
    /\ pc' = IF pc = "onStateChange" THEN "cooldown" ELSE "connected"
    /\ IF pc = "metricsHandler"
       THEN SendMetrics(cur, provided)
       ELSE UNCHANGED <<wire, metricsSent>>
    /\ UNCHANGED <<cbLeft, state, stopCh, closed, commands, transport, inbox,
                   pingDue, metricsDue, ticks, delivered, owed, obsVars, invoked>>

\* the callback returns (from Stop first, once m.stoppedCh is closed) and
\* the run loop goes on: after the provider it sends the metrics, after the
\* observer it enters the cool-down
CbReturn ==
    /\ pc \in Callbacks
    /\ inStop => stoppedCh
    /\ executing' = executing \ {<<pc, "run">>}
    /\ inStop' = FALSE
    /\ pc' = IF pc = "onStateChange" THEN "cooldown" ELSE "connected"
    /\ IF pc = "metricsHandler"
       THEN SendMetrics(cur, provided)
       ELSE UNCHANGED <<wire, metricsSent>>
    /\ UNCHANGED <<cbLeft, state, stopCh, closed, commands, transport, inbox,
                   pingDue, metricsDue, ticks, delivered, owed, obsVars, invoked>>

CbStep ==
    \/ CbPingTick
    \/ CbMetricsTick
    \/ CbPing
    \/ CbCommandBegin
    \/ CbMetricsBegin
    \/ CbLeave
    \/ CbStop
    \/ CbReturn
    \/ RunCooldownExit
    \/ RunCooldownElapsed
    \/ RunTopExit
    \/ \E c \in Clients : ReadFrame(c) \/ ReadExit(c)
    \/ \E c \in Clients : PeerClose(c)
    \/ CtxCancel

CbSpec == CbInit /\ [][CbStep]_vars

\* C34: the read task only decodes and enqueues, and the callbacks run on
\* the run-loop task one at a time.  At most one callback is in progress,
\* on the run-loop task; while it is in progress nothing is written on the
\* wire, no command is delivered and the provider is not invoked; and a
\* step of the read task neither begins a callback nor delivers a command.
C34_CallbacksOnRunLoop ==
    /\ [](/\ Cardinality(executing) <= 1
          /\ \A e \in executing : e[2] = "run" /\ e[1] = pc)
    /\ [][(executing # {} /\ executing' # {}) =>
             (wire' = wire /\ delivered' = delivered /\ invoked' = invoked
                /\ executing' = executing)]_vars
    /\ [][(\E c \in Clients : ReadFrame(c) \/ ReadExit(c)) =>
             (executing' = executing /\ delivered' = delivered
                /\ invoked' = invoked /\ wire' = wire)]_vars

\* the handler is still busy with the first command while the read task has
\* queued the second one and both tickers have fired
C34_Witness ==
    /\ executing = {<<"onCommand", "run">>}
    /\ Len(delivered[cur]) = 1
    /\ Len(commands[cur]) = 1
    /\ pingDue /\ metricsDue
    /\ Pings(cur) = 0


\* C39: Stop called from inside a callback that runs on the run-loop task
\* never returns.  Once the callback is in Stop it stays there: the run
\* loop is inside the callback, so it cannot return from run, and
\* m.stoppedCh, which only the return of run closes, stays open, whatever
\* the other tasks, the peer and the context do.
C39_StopInCallbackDeadlocks ==
    /\ [][inStop => inStop']_vars
    /\ [](inStop => (pc \in Callbacks /\ executing = {<<pc, "run">>}
                        /\ stopCh /\ ~stoppedCh))
    /\ [][inStop => (pc' = pc /\ state' = state /\ stoppedCh' = stoppedCh)]_vars

\* the observer, called with Disconnected at the end of the session, has
\* called Stop; the context was cancelled as well, and Stop still waits
C39_Witness ==
    /\ inStop
    /\ pc = "onStateChange"
    /\ lastObserved = StateDisconnected
    /\ ctxDone
    /\ ~stoppedCh

\* C40: Stop returns only for a Manager whose run loop has been started.
\* Before Start m.stoppedCh is open, a caller that has returned from Stop
\* implies a started run loop, and as long as Start is not called a caller
\* waiting in Stop keeps waiting.
C40_StopNeedsStart ==
    /\ [](pc = "idle" => ~stoppedCh)
    /\ [](StopReturned => pc # "idle")
    /\ [][(pc = "idle" /\ pc' = "idle") =>
             \A i \in Callers : stopCall[i] = "waiting" => stopCall'[i] = "waiting"]_vars

\* Stop was called on a Manager that was never started: the caller waits,
\* and a second caller has panicked on the closed stopCh
C40_Witness ==
    /\ pc = "idle"
    /\ stopCh
    /\ stopCall[1] = "waiting"
    /\ stopCall[2] = "panicked"
    /\ ~stoppedCh


(***************************************************************************)
(* A session in which the peer, after its welcome, has sent the other      *)
(* welcome, an error frame and a command, while the run loop pings, sends  *)
(* metrics, and the handler's side sends the command result.               *)
(***************************************************************************)
LaterFrames(w) ==
    <<CHOOSE v \in WelcomeFrames : v # w,
      CHOOSE e \in ErrorFrames : e.retry_after_seconds = 60,
      CommandFrame>>

ReadOnlyInit ==
    \E w \in WelcomeFrames : SessionOf(w, TRUE, TestMetrics, LaterFrames(w))

ReadOnlyStep ==
    \/ SessionPingTick
    \/ SessionMetricsTick
    \/ RunConnectedPing
    \/ RunConnectedDefault
    \/ RunConnectedCommand
    \/ RunConnectedCommandsClosed
    \/ RunConnectedStop
    \/ SendCommandResult
    \/ \E c \in Clients : ReadFrame(c) \/ ReadExit(c)
    \/ \E c \in Clients : PeerClose(c)
    \/ CtxCancel

ReadOnlySpec == ReadOnlyInit /\ [][ReadOnlyStep]_vars

\* what ServerID, MetricsInterval, SigningPublicKey and CommandsEnabled of
\* Client c return
Accessors(c) ==
    <<serverID[c], metricsIntervalSeconds[c], signingPublicKey[c], commandsEnabled[c]>>

\* C35: once Connect has returned success, no step changes what the four
\* accessors of that Client return: no frame read (a second welcome and an
\* error frame included), no ping, metrics or command result sent, no
\* close.
C35_HandshakeValuesReadOnly ==
    [][\A c \in Clients :
          (hsReply[c].type = "welcome" /\ hsReply'[c] = hsReply[c]) =>
              /\ Accessors(c)' = Accessors(c)
              /\ Accessors(c)' = <<hsReply[c].server_id,
                                   hsReply[c].metrics_interval_seconds,
                                   hsReply[c].signing_public_key,
                                   hsReply[c].commands_enabled>>]_vars

\* the read task has read the other welcome, the error frame and the
\* command, and a ping, metrics and the command result were written
C35_Witness ==
    /\ inbox[1] = <<>>
    /\ transport[1] = "open"
    /\ ~peerClosed[1]
    /\ Len(received[1]) = 1
    /\ Len(wire[1]) = 4
    /\ Pings(1) = 1
    /\ metricsSent[1] # <<>>
    /\ serverID[1] = "srv_123"


\* the commands the read task of Client c has put in the queue (no queue
\* overflows here)
Queued(c) == Cardinality({i \in 1..Len(received[c]) : received[c][i].decodes})

\* C37, as claimed: when the peer has closed the transport and the read
\* task has exited, the connected phase ends (neither stopped nor
\* cancelled) only with every queued command delivered.
C37_QueuedCommandsDelivered ==
    [][(pc = "connected" /\ pc' # "connected" /\ ~Signalled
          /\ peerClosed[cur] /\ readLoop[cur] = "done") =>
             (commands[cur] = <<>> /\ Len(delivered[cur]) = Queued(cur))]_vars

\* C37, amended: a connected phase that ends through the command queue
\* (runConnected finds it closed; no ping failed, nobody stopped or
\* cancelled) ends with every queued command delivered.
C37_QueueDrainedOnClose ==
    [][(pc = "connected" /\ pc' # "connected" /\ ~Signalled /\ ~pingDue
          /\ commandsClosed[cur]) =>
             (commands[cur] = <<>> /\ Len(delivered'[cur]) = Queued(cur))]_vars

\* the peer sent a command and closed; the read task queued it and exited;
\* the run loop delivered it, found the queue closed and ended the phase
C37_Witness ==
    /\ pc = "cooldown"
    /\ peerClosed[cur]
    /\ commandsClosed[cur]
    /\ ~closed[cur]
    /\ Len(delivered[cur]) = 1
    /\ Pings(cur) = 0
    /\ ~Signalled


\* C38: the read task of a Client is the only task that enqueues into and
\* the only one that closes that Client's command queue, and each Client
\* gets one read task.  A command is added only by a step of the running
\* read task, to a queue that is open; the queue is closed only by the step
\* in which the read task exits; a closed queue is not reopened while the
\* Client lives; and a read task is started only by the attempt under way,
\* on a Client that had none.
C38_ReadTaskOwnsQueue ==
    [][\A c \in Clients :
          /\ Len(commands'[c]) > Len(commands[c]) =>
                /\ readLoop[c] = "running" /\ readLoop'[c] = "running"
                /\ ~commandsClosed[c] /\ ~commandsClosed'[c]
                /\ Len(received'[c]) = Len(received[c]) + 1
          /\ (commandsClosed'[c] /\ ~commandsClosed[c]) =>
                (readLoop[c] = "running" /\ readLoop'[c] = "done")
          /\ (commandsClosed[c] /\ ~commandsClosed'[c]) =>
                (pc = "attempt" /\ cur' = c /\ readLoop'[c] = "none")
          /\ (readLoop'[c] = "running" /\ readLoop[c] # "running") =>
                (readLoop[c] = "none" /\ pc = "welcome" /\ c = cur
                    /\ ~commandsClosed[c] /\ commands[c] = <<>>)
          /\ (readLoop[c] = "done" /\ readLoop'[c] # "done") =>
                (pc = "attempt" /\ cur' = c)]_vars

\* Stop was called while a command was queued: the run loop closed the
\* Client, the read task exited and closed the queue, the command in it,
\* and the peer has closed as well
C38_Witness ==
    \E c \in Clients :
        /\ stopCh
        /\ closed[c]
        /\ peerClosed[c]
        /\ readLoop[c] = "done"
        /\ commandsClosed[c]
        /\ Len(commands[c]) = 1

=============================================================================
